---- MODULE Spec2Model ----
(***************************************************************************)
(* Layout-preserving correction engine of ai-report-assist                 *)
(* (src/app/pipeline/exporter.py, export_formatted_pdf and its helpers).   *)
(*                                                                         *)
(* Text is a sequence of one-character strings, so that Python's           *)
(* substring test, str.replace, str.split and str.lower are computed       *)
(* character by character.  Lengths are integers in milli-points           *)
(* (1/1000 pt); OCR pixel boxes are integers in pixels at 300 dpi, so one  *)
(* pixel is 72/300 pt = 240 milli-points.                                  *)
(***************************************************************************)
EXTENDS Integers, Sequences, FiniteSets, TLC

\* ------------------------------------------------------------------ text

Max(a, b) == IF a >= b THEN a ELSE b

Min(a, b) == IF a <= b THEN a ELSE b

MaxOf(S) == CHOOSE x \in S : \A y \in S : y <= x

MinOf(S) == CHOOSE x \in S : \A y \in S : x <= y

\* a list built by comprehension, as a list value
ListOf(f) == f \o <<>>

Whitespace == {" ", "\n", "\t"}

UpperSet ==
  {"A","B","C","D","E","F","G","H","I","J","K","L","M",
   "N","O","P","Q","R","S","T","U","V","W","X","Y","Z"}

\* str.lower on one character
LowerChar(c) ==
  CASE c = "A" -> "a" [] c = "B" -> "b" [] c = "C" -> "c" [] c = "D" -> "d"
    [] c = "E" -> "e" [] c = "F" -> "f" [] c = "G" -> "g" [] c = "H" -> "h"
    [] c = "I" -> "i" [] c = "J" -> "j" [] c = "K" -> "k" [] c = "L" -> "l"
    [] c = "M" -> "m" [] c = "N" -> "n" [] c = "O" -> "o" [] c = "P" -> "p"
    [] c = "Q" -> "q" [] c = "R" -> "r" [] c = "S" -> "s" [] c = "T" -> "t"
    [] c = "U" -> "u" [] c = "V" -> "v" [] c = "W" -> "w" [] c = "X" -> "x"
    [] c = "Y" -> "y" [] c = "Z" -> "z" [] OTHER -> c

\* str.lower
Lower(s) == ListOf([i \in 1..Len(s) |-> LowerChar(s[i])])

\* s[i:i+len(sub)] == sub   (i is 1-based)
MatchAt(s, sub, i) ==
  /\ i + Len(sub) - 1 <= Len(s)
  /\ \A k \in 1..Len(sub) : s[i + k - 1] = sub[k]

\* Python's `sub in s`
Contains(s, sub) == \E i \in 1..(Len(s) + 1) : MatchAt(s, sub, i)

RECURSIVE ReplaceFrom(_, _, _, _)
\* str.replace scanning from index i: leftmost, non-overlapping occurrences
ReplaceFrom(s, old, new, i) ==
  LET hits == {k \in i..Len(s) : MatchAt(s, old, k)}
  IN IF hits = {} THEN SubSeq(s, i, Len(s))
     ELSE LET m == MinOf(hits)
          IN SubSeq(s, i, m - 1) \o new \o ReplaceFrom(s, old, new, m + Len(old))

RECURSIVE Interleave(_, _, _)
\* str.replace with an empty pattern: `new` before every character and at the end
Interleave(s, new, i) ==
  IF i > Len(s) THEN new
  ELSE new \o <<s[i]>> \o Interleave(s, new, i + 1)

\* str.replace(old, new)
Replace(s, old, new) ==
  IF old = <<>> THEN Interleave(s, new, 1) ELSE ReplaceFrom(s, old, new, 1)

RECURSIVE LStrip(_)
\* str.lstrip()
LStrip(s) ==
  IF s # <<>> /\ Head(s) \in Whitespace THEN LStrip(Tail(s)) ELSE s

RECURSIVE RStrip(_)
\* str.rstrip()
RStrip(s) ==
  IF s # <<>> /\ s[Len(s)] \in Whitespace
  THEN RStrip(SubSeq(s, 1, Len(s) - 1)) ELSE s

\* str.strip()
Strip(s) == RStrip(LStrip(s))

RECURSIVE WsRunEnd(_, _)
\* end (exclusive) of the whitespace run starting at i
WsRunEnd(s, i) ==
  IF i <= Len(s) /\ s[i] \in Whitespace THEN WsRunEnd(s, i + 1) ELSE i

RECURSIVE WordEnd(_, _)
\* end (exclusive) of the run of non-whitespace characters starting at i
WordEnd(s, i) ==
  IF i <= Len(s) /\ s[i] \notin Whitespace THEN WordEnd(s, i + 1) ELSE i

RECURSIVE SplitWsFrom(_, _)
\* str.split(): the maximal runs of non-whitespace characters from index i on
SplitWsFrom(s, i) ==
  LET b == WsRunEnd(s, i)
  IN IF b > Len(s) THEN <<>>
     ELSE LET e == WordEnd(s, b)
          IN <<SubSeq(s, b, e - 1)>> \o SplitWsFrom(s, e)

SplitWs(s) == SplitWsFrom(s, 1)

RECURSIVE SplitCharFrom(_, _, _)
\* str.split(c): every piece between separators, empty pieces included; the
\* piece being read begins at index `start`
SplitCharFrom(s, c, start) ==
  LET hits == {k \in start..Len(s) : s[k] = c}
  IN IF hits = {} THEN <<SubSeq(s, start, Len(s))>>
     ELSE <<SubSeq(s, start, MinOf(hits) - 1)>> \o SplitCharFrom(s, c, MinOf(hits) + 1)

SplitLines(s) == SplitCharFrom(s, "\n", 1)

\* str.split("\n", 1): at most one split
SplitFirstLine(s) ==
  IF \E i \in 1..Len(s) : s[i] = "\n"
  THEN LET i == CHOOSE k \in 1..Len(s) :
                  s[k] = "\n" /\ \A j \in 1..(k - 1) : s[j] # "\n"
       IN <<SubSeq(s, 1, i - 1), SubSeq(s, i + 1, Len(s))>>
  ELSE <<s>>

RECURSIVE Join(_, _)
\* sep.join(parts)
Join(parts, sep) ==
  IF parts = <<>> THEN <<>>
  ELSE IF Len(parts) = 1 THEN parts[1]
  ELSE parts[1] \o sep \o Join(Tail(parts), sep)

\* _normalize_ws: collapse all whitespace to single spaces
NormalizeWs(text) == Join(SplitWs(text), <<" ">>)

\* set(_normalize_ws(text).lower().split())
WordSet(text) ==
  LET ws == SplitWs(Lower(NormalizeWs(text)))
  IN {ws[i] : i \in 1..Len(ws)}

\* the end of the match of \n\s*\n starting at i (0 when there is none):
\* \s* is greedy, so the match ends at the last newline of the whitespace run
BlankMatchEnd(s, i) ==
  IF i > Len(s) \/ s[i] # "\n" THEN 0
  ELSE LET e == WsRunEnd(s, i + 1)
           nl == {k \in (i + 1)..(e - 1) : s[k] = "\n"}
       IN IF nl = {} THEN 0 ELSE CHOOSE k \in nl : \A j \in nl : j <= k

RECURSIVE ReSplitBlankFrom(_, _)
\* re.split(r"\n\s*\n", s); the piece being read begins at index `start`
ReSplitBlankFrom(s, start) ==
  LET hits == {k \in start..Len(s) : BlankMatchEnd(s, k) > 0}
  IN IF hits = {} THEN <<SubSeq(s, start, Len(s))>>
     ELSE LET m == MinOf(hits)
              e == BlankMatchEnd(s, m)
          IN <<SubSeq(s, start, m - 1)>> \o ReSplitBlankFrom(s, e + 1)

ReSplitBlank(s) == ReSplitBlankFrom(s, 1)

\* re.match(r"^[A-Z ]+:$", line)
IsLabelLine(line) ==
  /\ Len(line) >= 2
  /\ line[Len(line)] = ":"
  /\ \A i \in 1..(Len(line) - 1) : line[i] \in UpperSet \cup {" "}

\* ------------------------------------------------------------- geometry

RECURSIVE SumSeq(_)
SumSeq(q) == IF q = <<>> THEN 0 ELSE Head(q) + SumSeq(Tail(q))

Range(q) == {q[i] : i \in 1..Len(q)}

\* dpi of the page raster handed to Tesseract
Dpi == 300

\* scale = 72.0 / dpi, in milli-points per pixel
MilliPtPerPx == 72000 \div Dpi

Rect(x0, y0, x1, y1) == [x0 |-> x0, y0 |-> y0, x1 |-> x1, y1 |-> y1]

Width(r) == r.x1 - r.x0

Height(r) == r.y1 - r.y0

\* the tight bounding box of a non-empty sequence of rectangles
BoundingBox(rects) ==
  Rect(MinOf({rects[i].x0 : i \in 1..Len(rects)}),
       MinOf({rects[i].y0 : i \in 1..Len(rects)}),
       MaxOf({rects[i].x1 : i \in 1..Len(rects)}),
       MaxOf({rects[i].y1 : i \in 1..Len(rects)}))

\* the point-space rectangle of one OCR word
WordRect(w) ==
  Rect(w.left * MilliPtPerPx, w.top * MilliPtPerPx,
       (w.left + w.width) * MilliPtPerPx, (w.top + w.height) * MilliPtPerPx)

\* sum(r.height for r in word_rects) / len(word_rects)
AvgHeight(word_rects) ==
  SumSeq(ListOf([i \in 1..Len(word_rects) |-> Height(word_rects[i])])) \div Len(word_rects)

\* ------------------------------------------------------ OCR block extractor

RECURSIVE Ascending(_)
\* the elements of a finite set of integers in increasing order
Ascending(S) ==
  IF S = {} THEN <<>>
  ELSE LET m == MinOf(S) IN <<m>> \o Ascending(S \ {m})

NonBlankWord(w) == Strip(w.text) # <<>>

RECURSIVE Distinct(_, _)
\* q without repetitions, keeping first occurrences (dict insertion order)
Distinct(q, seen) ==
  IF q = <<>> THEN <<>>
  ELSE IF Head(q) \in seen THEN Distinct(Tail(q), seen)
  ELSE <<Head(q)>> \o Distinct(Tail(q), seen \cup {Head(q)})

\* one block dict: the words of `data` at `indices`
MakeBlock(data, bnum, indices) ==
  LET word_rects == ListOf([k \in 1..Len(indices) |-> WordRect(data[indices[k]])])
  IN [block_num |-> bnum,
      text |-> Join(ListOf([k \in 1..Len(indices) |-> data[indices[k]].text]), <<" ">>),
      rect |-> BoundingBox(word_rects),
      word_rects |-> word_rects,
      avg_word_height |-> AvgHeight(word_rects)]

\* the sort key (b["rect"].y0, b["rect"].x0)
BlockKeyLe(a, b) ==
  \/ a.rect.y0 < b.rect.y0
  \/ a.rect.y0 = b.rect.y0 /\ a.rect.x0 <= b.rect.x0

RECURSIVE InsertSorted(_, _)
\* b goes after every element whose key is <= its own (stable)
InsertSorted(sorted, b) ==
  IF sorted = <<>> THEN <<b>>
  ELSE IF BlockKeyLe(Head(sorted), b)
       THEN <<Head(sorted)>> \o InsertSorted(Tail(sorted), b)
       ELSE <<b>> \o sorted

RECURSIVE SortBlocks(_, _)
\* list.sort(key=...) : stable, ascending
SortBlocks(q, acc) ==
  IF q = <<>> THEN acc ELSE SortBlocks(Tail(q), InsertSorted(acc, Head(q)))

\* _ocr_page_blocks on Tesseract's word list `data`
OcrPageBlocks(data) ==
  LET kept == Ascending({i \in 1..Len(data) : NonBlankWord(data[i])})
      bnums == Distinct(ListOf([k \in 1..Len(kept) |-> data[kept[k]].block_num]), {})
      InBlock(b) == Ascending({i \in Range(kept) : data[i].block_num = b})
      blocks == ListOf([k \in 1..Len(bnums) |-> MakeBlock(data, bnums[k], InBlock(bnums[k]))])
  IN SortBlocks(blocks, <<>>)

\* a merge that keeps the rectangle of the first block
MergeBlocks_FirstBlockRect(blocks) ==
  [block_num |-> blocks[1].block_num,
   text |-> Join(ListOf([k \in 1..Len(blocks) |-> blocks[k].text]), <<" ">>),
   rect |-> blocks[1].rect,
   word_rects |-> blocks[1].word_rects,
   avg_word_height |-> blocks[1].avg_word_height]

\* _merge_blocks
MergeBlocks(blocks) ==
  LET RECURSIVE AllRects(_)
      AllRects(q) == IF q = <<>> THEN <<>>
                     ELSE Head(q).word_rects \o AllRects(Tail(q))
      all_word_rects == AllRects(blocks)
  IN [block_num |-> blocks[1].block_num,
      text |-> Join(ListOf([k \in 1..Len(blocks) |-> blocks[k].text]), <<" ">>),
      rect |-> BoundingBox(all_word_rects),
      word_rects |-> all_word_rects,
      avg_word_height |-> AvgHeight(all_word_rects)]

\* --------------------------------------------------------- region renderer

\* the floor of the font size, 7 pt
MinFontSize == 7000

\* margin = 2 (pt) around the render rectangle
Margin == 2000

\* the buffer of 4 pt under the last line
BottomBuffer == 4000

\* fitz.get_text_length(text, fontname="helv", fontsize): the advance width
\* of the text, taken as half an em per character
TextLength(text, fontsize) == (Len(text) * fontsize) \div 2

RECURSIVE WrapWords(_, _, _, _)
\* the inner loop of _wrap_text over the words of one paragraph
WrapWords(words, current, max_width, fontsize) ==
  IF words = <<>> THEN (IF current # <<>> THEN <<current>> ELSE <<>>)
  ELSE LET test == current \o (IF current # <<>> THEN <<" ">> ELSE <<>>) \o Head(words)
       IN IF TextLength(test, fontsize) <= max_width
          THEN WrapWords(Tail(words), test, max_width, fontsize)
          ELSE (IF current # <<>> THEN <<current>> ELSE <<>>)
               \o WrapWords(Tail(words), Head(words), max_width, fontsize)

RECURSIVE WrapParagraphs(_, _, _)
WrapParagraphs(paragraphs, max_width, fontsize) ==
  IF paragraphs = <<>> THEN <<>>
  ELSE (IF Strip(Head(paragraphs)) = <<>> THEN << <<>> >>
        ELSE WrapWords(SplitWs(Head(paragraphs)), <<>>, max_width, fontsize))
       \o WrapParagraphs(Tail(paragraphs), max_width, fontsize)

\* _wrap_text
WrapText(text, max_width, fontsize) ==
  WrapParagraphs(SplitLines(text), max_width, fontsize)

\* _estimate_textbox_height: fontsize * 1.7 + max(0, num_lines - 1) * fontsize * 1.4
EstimateTextboxHeight(num_lines, fontsize) ==
  IF num_lines <= 0 THEN 0
  ELSE (fontsize * 17 + Max(0, num_lines - 1) * fontsize * 14) \div 10

\* the inferred size without its floor
InitialFontSize_NoFloor(avg_word_height) == (avg_word_height * 8) \div 10

\* max(block["avg_word_height"] * 0.80, 7)
InitialFontSize(avg_word_height) == Max((avg_word_height * 8) \div 10, MinFontSize)

\* a reduction applied twice over
ReducedFontSize_Twice(fontsize) == Max((fontsize * 64) \div 100, MinFontSize)

\* max(fontsize * 0.80, 7)
ReducedFontSize(fontsize) == Max((fontsize * 8) \div 10, MinFontSize)

\* needed > rect.height * 1.1
Exceeds(needed, rect) == needed * 10 > Height(rect) * 11

\* the font size, wrapped lines and needed height _whiteout_and_render settles on
FitText(block, text) ==
  LET rect == block.rect
      fontsize == InitialFontSize(block.avg_word_height)
      wrapped == WrapText(Strip(text), Width(rect), fontsize)
      needed == EstimateTextboxHeight(Len(wrapped), fontsize)
      test_fs == ReducedFontSize(fontsize)
      test_wrap == WrapText(Strip(text), Width(rect), test_fs)
      test_needed == EstimateTextboxHeight(Len(test_wrap), test_fs)
  IN IF Exceeds(needed, rect) /\ fontsize > MinFontSize /\ ~Exceeds(test_needed, rect)
     THEN [fontsize |-> test_fs, wrapped |-> test_wrap, needed |-> test_needed]
     ELSE [fontsize |-> fontsize, wrapped |-> wrapped, needed |-> needed]

\* a render rectangle that never leaves the block
RenderRect_KeepsBlock(rect, needed) == rect

\* render_rect: the block rectangle, extended downward if necessary
RenderRect(rect, needed) ==
  Rect(rect.x0, rect.y0, rect.x1, Max(rect.y1, rect.y0 + needed + BottomBuffer))

\* clean: the render rectangle plus the margin on all sides
CleanRect(render_rect) ==
  Rect(render_rect.x0 - Margin, render_rect.y0 - Margin,
       render_rect.x1 + Margin, render_rect.y1 + Margin)

\* (0, 0, 0) and (1, 1, 1)
Black == <<0, 0, 0>>

White == <<1, 1, 1>>

\* one drawing operation appended to a page's content: draw_rect fills with
\* white and has no font, insert_textbox and insert_text draw in "helv" and black
DrawOp(kind, rect, text, fontsize, render_mode) ==
  [kind |-> kind, rect |-> rect, text |-> text, fontsize |-> fontsize,
   render_mode |-> render_mode,
   fontname |-> IF kind = "draw_rect" THEN "" ELSE "helv",
   color |-> IF kind = "draw_rect" THEN White ELSE Black]

\* the text drawn first and the white rectangle over it afterwards
WhiteoutAndRender_TextFirst(block, text) ==
  LET fit == FitText(block, text)
      render_rect == RenderRect(block.rect, fit.needed)
  IN << DrawOp("insert_textbox", render_rect, Strip(text), fit.fontsize, 0),
        DrawOp("draw_rect", CleanRect(render_rect), <<>>, 0, 0) >>

\* _whiteout_and_render: the drawing operations, in the order they are issued
WhiteoutAndRender(block, text) ==
  LET fit == FitText(block, text)
      render_rect == RenderRect(block.rect, fit.needed)
  IN << DrawOp("draw_rect", CleanRect(render_rect), <<>>, 0, 0),
        DrawOp("insert_textbox", render_rect, Strip(text), fit.fontsize, 0) >>

\* -------------------------------------------------------- paragraph matcher

\* matching_count >= 5
MinMatchingWords == 5

\* the 80-character floor of the line-accumulation fallback
MinParagraphChars == 80

RECURSIVE StripAll(_)
\* [p.strip() for p in parts if p.strip()]
StripAll(parts) ==
  IF parts = <<>> THEN <<>>
  ELSE (IF Strip(Head(parts)) = <<>> THEN <<>> ELSE <<Strip(Head(parts))>>)
       \o StripAll(Tail(parts))

RECURSIVE Accumulate(_, _)
\* merge consecutive lines until the joined length reaches 80 characters
Accumulate(lines, current) ==
  IF lines = <<>>
  THEN (IF current # <<>> THEN <<Join(current, <<" ">>)>> ELSE <<>>)
  ELSE LET cur == Append(current, Head(lines))
       IN IF Len(Join(cur, <<" ">>)) >= MinParagraphChars
          THEN <<Join(cur, <<" ">>)>> \o Accumulate(Tail(lines), <<>>)
          ELSE Accumulate(Tail(lines), cur)

\* the paragraphs of the stored page text, before labels are separated
SplitParagraphs(stored) ==
  LET paragraphs == StripAll(ReSplitBlank(stored))
  IN IF Len(paragraphs) <= 1
     THEN Accumulate(StripAll(SplitLines(stored)), <<>>)
     ELSE paragraphs

\* separate a leading label line from the content of one paragraph
CleanLabel(para) ==
  LET lines == SplitFirstLine(para)
  IN IF Len(lines) = 2 /\ IsLabelLine(Strip(lines[1]))
     THEN Strip(lines[2]) ELSE para

CleanedParagraphs(stored) ==
  LET paragraphs == SplitParagraphs(stored)
  IN ListOf([k \in 1..Len(paragraphs) |-> CleanLabel(paragraphs[k])])

\* the replace loop leaving after the first pair that applies
ApplyChanges_StopsAfterFirst(text, changes, changed) ==
  LET hits == {k \in 1..Len(changes) : Contains(text, changes[k][1])}
  IN IF hits = {} THEN [text |-> text, changed |-> changed]
     ELSE [text |-> Replace(text, changes[MinOf(hits)][1], changes[MinOf(hits)][2]),
           changed |-> TRUE]

RECURSIVE ApplyChanges(_, _, _)
\* the replace loop over `changes`: the text after every pair whose original
\* phrase occurs in the text as modified so far, and whether any pair applied
ApplyChanges(text, changes, changed) ==
  IF changes = <<>> THEN [text |-> text, changed |-> changed]
  ELSE LET c == Head(changes)
       IN IF Contains(text, c[1])
          THEN ApplyChanges(Replace(text, c[1], c[2]), Tail(changes), TRUE)
          ELSE ApplyChanges(text, Tail(changes), changed)

RECURSIVE Affected(_, _)
\* affected: (original, debiased) for every paragraph some pair changed
Affected(paragraphs, changes) ==
  IF paragraphs = <<>> THEN <<>>
  ELSE LET r == ApplyChanges(Head(paragraphs), changes, FALSE)
       IN (IF r.changed THEN << <<Head(paragraphs), r.text>> >> ELSE <<>>)
          \o Affected(Tail(paragraphs), changes)

\* any(orig in stored for orig, _ in changes)
AnyPhrasePresent(stored, changes) ==
  \E k \in 1..Len(changes) : Contains(stored, changes[k][1])

\* the overlap test without the floor on the number of shared words
MeetsThresholds_NoFloor(bw_set, para_words) ==
  Cardinality(bw_set \cap para_words) * 10 >= 4 * Cardinality(bw_set)

\* overlap >= 0.4 and matching_count >= 5
MeetsThresholds(bw_set, para_words) ==
  LET matching_count == Cardinality(bw_set \cap para_words)
  IN /\ matching_count * 10 >= 4 * Cardinality(bw_set)
     /\ matching_count >= MinMatchingWords

\* the unclaimed blocks whose word set overlaps the paragraph's significantly
ThresholdMatches(blocks, para, replaced) ==
  LET para_words == WordSet(para)
  IN Ascending({bi \in 1..Len(blocks) :
                  /\ bi \notin replaced
                  /\ LET bw_set == WordSet(blocks[bi].text)
                     IN bw_set # {} /\ MeetsThresholds(bw_set, para_words)})

\* the unclaimed blocks whose OCR text contains a bias phrase
FallbackMatches(blocks, changes, replaced) ==
  Ascending({bi \in 1..Len(blocks) :
               /\ bi \notin replaced
               /\ \E k \in 1..Len(changes) :
                    Contains(NormalizeWs(blocks[bi].text), NormalizeWs(changes[k][1]))})

\* matching that forgets which blocks are claimed
MatchingBlocks_IgnoresClaims(blocks, para, changes, replaced) ==
  IF ThresholdMatches(blocks, para, {}) = <<>>
  THEN FallbackMatches(blocks, changes, {})
  ELSE ThresholdMatches(blocks, para, {})

\* matching_bis for one affected paragraph
MatchingBlocks(blocks, para, changes, replaced) ==
  LET matching_bis == ThresholdMatches(blocks, para, replaced)
  IN IF matching_bis = <<>>
     THEN FallbackMatches(blocks, changes, replaced)
     ELSE matching_bis

\* --------------------------------------------------------- form-field patcher

\* the patcher computing the new value without assigning it to the field
PatchWidget_NeverAssigns(value, changes) ==
  IF value = <<>> THEN [text |-> value, changed |-> FALSE]
  ELSE [text |-> value, changed |-> ApplyChanges(value, changes, FALSE).changed]

RECURSIVE ReplacePresentIn(_, _, _)
\* each pair applied only if its phrase occurs in the value as it first was
ReplacePresentIn(original, text, changes) ==
  IF changes = <<>> THEN text
  ELSE IF Contains(original, Head(changes)[1])
  THEN ReplacePresentIn(original, Replace(text, Head(changes)[1], Head(changes)[2]),
                        Tail(changes))
  ELSE ReplacePresentIn(original, text, Tail(changes))

\* the patcher testing every pair against the original value
PatchWidget_AgainstOriginal(value, changes) ==
  IF value = <<>> THEN [text |-> value, changed |-> FALSE]
  ELSE [text |-> ReplacePresentIn(value, value, changes),
        changed |-> ApplyChanges(value, changes, FALSE).changed]

\* the value of one widget after _export_via_form_fields
PatchWidget(value, changes) ==
  IF value = <<>> THEN [text |-> value, changed |-> FALSE]
  ELSE ApplyChanges(value, changes, FALSE)

\* ------------------------------------------------- searchable-layer synthesizer

\* pages with more than 50 extractable characters are skipped
MinSearchableChars == 50

\* fontsize = max(h * 0.85, 1)
InvisibleFontSize(h) == Max((h * 85) \div 100, 1000)

\* a run placed at the top of the word instead of its baseline
InvisibleRun_AtTop(w) ==
  LET x == w.left * MilliPtPerPx
      y == w.top * MilliPtPerPx
  IN DrawOp("insert_text", Rect(x, y, x, y), Strip(w.text),
            InvisibleFontSize(w.height * MilliPtPerPx), 3)

\* the invisible run stamped for one OCR word
InvisibleRun(w) ==
  LET x == w.left * MilliPtPerPx
      y == w.top * MilliPtPerPx
      fontsize == InvisibleFontSize(w.height * MilliPtPerPx)
      baseline_y == y + (fontsize * 88) \div 100
  IN DrawOp("insert_text", Rect(x, baseline_y, x, baseline_y), Strip(w.text),
            fontsize, 3)

\* the runs stamped on one page, one for every non-blank word, in OCR order
InvisibleRuns(data) ==
  LET kept == Ascending({i \in 1..Len(data) : Strip(data[i].text) # <<>>})
  IN ListOf([k \in 1..Len(kept) |-> InvisibleRun(data[kept[k]])])

\* ------------------------------------------------------------------ inputs

OcrWord(text, left, top, width, height, block_num) ==
  [text |-> text, left |-> left, top |-> top, width |-> width,
   height |-> height, block_num |-> block_num]

\* one text run of a source page: its font family, weight and slant, its colour
\* and where it stands
TextRun(family, bold, italic, color, bbox) ==
  [family |-> family, bold |-> bold, italic |-> italic, color |-> color,
   bbox |-> bbox]

\* one source page: its extractable text and the text runs that carry it, its
\* form-field values, what Tesseract reads on its raster, and the text the
\* extraction step stored for it
SourcePage(id, native_text, runs, field_values, ocr, page_text) ==
  [id |-> id, native_text |-> native_text, runs |-> runs,
   widgets |-> field_values, ocr |-> ocr, page_text |-> page_text]

\* 'The suspect fled the scene.'
TxtNative ==
  <<"T","h","e"," ","s","u","s","p","e","c","t"," ","f","l","e","d"," ","t","h","e"," ","s","c","e","n","e",".">>

\* one line, block 1, words 50 px high
OcrNative ==
  << OcrWord(<<"T","h","e">>, 300, 300, 90, 50, 1),
     OcrWord(<<"s","u","s","p","e","c","t">>, 420, 300, 210, 50, 1),
     OcrWord(<<"f","l","e","d">>, 660, 300, 120, 50, 1),
     OcrWord(<<"t","h","e">>, 810, 300, 90, 50, 1),
     OcrWord(<<"s","c","e","n","e",".">>, 930, 300, 180, 50, 1) >>

\* 'Subject appeared nervous and agitated.'
TxtScan ==
  <<"S","u","b","j","e","c","t"," ","a","p","p","e","a","r","e","d"," ","n","e","r","v","o","u","s"," ","a","n","d"," ","a","g","i","t","a","t","e","d",".">>

\* one line in capitals, block 3, words 60 px high
OcrScan ==
  << OcrWord(<<"S","U","B","J","E","C","T">>, 300, 400, 280, 60, 3),
     OcrWord(<<"A","P","P","E","A","R","E","D">>, 620, 400, 320, 60, 3),
     OcrWord(<<"N","E","R","V","O","U","S">>, 980, 400, 280, 60, 3),
     OcrWord(<<"A","N","D">>, 1300, 400, 120, 60, 3),
     OcrWord(<<"A","G","I","T","A","T","E","D">>, 1460, 400, 320, 60, 3) >>

\* 'Confessed he fled'
TxtField ==
  <<"C","o","n","f","e","s","s","e","d"," ","h","e"," ","f","l","e","d">>

\* the field's appearance, block 2, words 40 px high
OcrForm ==
  << OcrWord(<<"C","o","n","f","e","s","s","e","d">>, 300, 500, 225, 40, 2),
     OcrWord(<<"h","e">>, 550, 500, 50, 40, 2),
     OcrWord(<<"f","l","e","d">>, 625, 500, 100, 40, 2) >>

\* 'NARRATIVE:\nThe man ran off in an old red\nvan and hit a car by the dock.\n\nBob was rude to us.'
TxtTwo ==
  <<"N","A","R","R","A","T","I","V","E",":","\n","T","h","e"," ","m","a","n"," ","r","a","n"," ","o","f","f"," ","i","n"," ","a","n"," ","o","l","d"," ","r","e","d","\n","v","a","n"," ","a","n","d"," ","h","i","t"," ","a"," ","c","a","r"," ","b","y"," ","t","h","e"," ","d","o","c","k",".","\n","\n","B","o","b"," ","w","a","s"," ","r","u","d","e"," ","t","o"," ","u","s",".">>

\* label (block 4), a paragraph on two lines (blocks 5 and 6), a second paragraph (block 7), words 30 px high; Tesseract lists block 7 first and one empty structural row
OcrTwo ==
  << OcrWord(<<"B","o","b">>, 300, 480, 60, 30, 7),
     OcrWord(<<"w","a","s">>, 380, 480, 60, 30, 7),
     OcrWord(<<"r","u","d","e">>, 460, 480, 80, 30, 7),
     OcrWord(<<"t","o">>, 560, 480, 40, 30, 7),
     OcrWord(<<"u","s",".">>, 620, 480, 60, 30, 7),
     OcrWord(<<"N","A","R","R","A","T","I","V","E",":">>, 300, 200, 200, 30, 4),
     OcrWord(<<>>, 0, 0, 2550, 3300, 5),
     OcrWord(<<"T","h","e">>, 300, 300, 60, 30, 5),
     OcrWord(<<"m","a","n">>, 380, 300, 60, 30, 5),
     OcrWord(<<"r","a","n">>, 460, 300, 60, 30, 5),
     OcrWord(<<"o","f","f">>, 540, 300, 60, 30, 5),
     OcrWord(<<"i","n">>, 620, 300, 40, 30, 5),
     OcrWord(<<"a","n">>, 680, 300, 40, 30, 5),
     OcrWord(<<"o","l","d">>, 740, 300, 60, 30, 5),
     OcrWord(<<"r","e","d">>, 820, 300, 60, 30, 5),
     OcrWord(<<"v","a","n">>, 300, 360, 60, 30, 6),
     OcrWord(<<"a","n","d">>, 380, 360, 60, 30, 6),
     OcrWord(<<"h","i","t">>, 460, 360, 60, 30, 6),
     OcrWord(<<"a">>, 540, 360, 20, 30, 6),
     OcrWord(<<"c","a","r">>, 580, 360, 60, 30, 6),
     OcrWord(<<"b","y">>, 660, 360, 40, 30, 6),
     OcrWord(<<"t","h","e">>, 720, 360, 60, 30, 6),
     OcrWord(<<"d","o","c","k",".">>, 800, 360, 100, 30, 6) >>

\* 'He fled the scene at noon with a bag of cash.\n\nShe fled too.\n\nHe then fled north on foot.'
TxtShort ==
  <<"H","e"," ","f","l","e","d"," ","t","h","e"," ","s","c","e","n","e"," ","a","t"," ","n","o","o","n"," ","w","i","t","h"," ","a"," ","b","a","g"," ","o","f"," ","c","a","s","h",".","\n","\n","S","h","e"," ","f","l","e","d"," ","t","o","o",".","\n","\n","H","e"," ","t","h","e","n"," ","f","l","e","d"," ","n","o","r","t","h"," ","o","n"," ","f","o","o","t",".">>

\* the first sentence broken into three short blocks, the second paragraph in a
\* fourth, the third in a fifth with one word read in capitals; words 50 px high
OcrShort ==
  << OcrWord(<<"H","e">>, 300, 300, 60, 50, 1),
     OcrWord(<<"f","l","e","d">>, 390, 300, 120, 50, 1),
     OcrWord(<<"t","h","e">>, 540, 300, 90, 50, 1),
     OcrWord(<<"s","c","e","n","e">>, 300, 400, 150, 50, 2),
     OcrWord(<<"a","t">>, 480, 400, 60, 50, 2),
     OcrWord(<<"n","o","o","n">>, 570, 400, 120, 50, 2),
     OcrWord(<<"w","i","t","h">>, 720, 400, 120, 50, 2),
     OcrWord(<<"a">>, 300, 500, 30, 50, 3),
     OcrWord(<<"b","a","g">>, 360, 500, 90, 50, 3),
     OcrWord(<<"o","f">>, 480, 500, 60, 50, 3),
     OcrWord(<<"c","a","s","h",".">>, 570, 500, 150, 50, 3),
     OcrWord(<<"S","h","e">>, 300, 600, 90, 50, 4),
     OcrWord(<<"f","l","e","d">>, 420, 600, 120, 50, 4),
     OcrWord(<<"t","o","o",".">>, 570, 600, 120, 50, 4),
     OcrWord(<<"H","e">>, 300, 700, 60, 50, 5),
     OcrWord(<<"t","h","e","n">>, 390, 700, 120, 50, 5),
     OcrWord(<<"F","L","E","D">>, 540, 700, 120, 50, 5),
     OcrWord(<<"n","o","r","t","h">>, 690, 700, 150, 50, 5),
     OcrWord(<<"o","n">>, 870, 700, 60, 50, 5),
     OcrWord(<<"f","o","o","t",".">>, 960, 700, 150, 50, 5) >>

\* 'He fled.'
TxtBlank ==
  <<"H","e"," ","f","l","e","d",".">>

\* Tesseract recognises nothing: only blank rows
OcrBlank ==
  << OcrWord(<<>>, 0, 0, 2550, 3300, 0),
     OcrWord(<<" ">>, 300, 300, 10, 50, 1) >>

\* 'fled'
PhFled ==
  <<"f","l","e","d">>

\* 'left'
PhLeft ==
  <<"l","e","f","t">>

\* 'agitated'
PhAgitated ==
  <<"a","g","i","t","a","t","e","d">>

\* 'calm'
PhCalm ==
  <<"c","a","l","m">>

\* 'Confessed'
PhConfessed ==
  <<"C","o","n","f","e","s","s","e","d">>

\* 'Stated'
PhStated ==
  <<"S","t","a","t","e","d">>

\* 'ran off'
PhRanOff ==
  <<"r","a","n"," ","o","f","f">>

\* 'drove away'
PhDroveAway ==
  <<"d","r","o","v","e"," ","a","w","a","y">>

\* '[PERSON_1] was rude'
PhRude ==
  <<"[","P","E","R","S","O","N","_","1","]"," ","w","a","s"," ","r","u","d","e">>

\* '[PERSON_1] was curt'
PhCurt ==
  <<"[","P","E","R","S","O","N","_","1","]"," ","w","a","s"," ","c","u","r","t">>

\* 'ran away from the officers in a hurry and left'
PhLong ==
  <<"r","a","n"," ","a","w","a","y"," ","f","r","o","m"," ","t","h","e"," ","o","f","f","i","c","e","r","s"," ","i","n"," ","a"," ","h","u","r","r","y"," ","a","n","d"," ","l","e","f","t">>

\* '[PERSON_1]'
TokPerson ==
  <<"[","P","E","R","S","O","N","_","1","]">>

\* 'Bob'
ValPerson ==
  <<"B","o","b">>

\* the sentence of the native page: one run in a blue serif italic
RunsNative ==
  << TextRun("serif", FALSE, TRUE, <<0, 0, 1>>, Rect(72000, 72000, 266400, 84000)) >>

\* the label and the three lines of the two-paragraph page, in black sans
RunsTwo ==
  << TextRun("sans", TRUE, FALSE, Black, Rect(72000, 48000, 120000, 55200)),
     TextRun("sans", FALSE, FALSE, Black, Rect(72000, 72000, 211200, 79200)),
     TextRun("sans", FALSE, FALSE, Black, Rect(72000, 86400, 216000, 93600)),
     TextRun("sans", FALSE, FALSE, Black, Rect(72000, 115200, 163200, 122400)) >>

\* a native page of one sentence
PgNative == SourcePage("native", TxtNative, RunsNative, <<>>, OcrNative, TxtNative)

\* a scanned page whose OCR reads the sentence in capitals, without the full stop
PgScan == SourcePage("scan", <<>>, <<>>, <<>>, OcrScan, TxtScan)

\* a form page: one filled field, one empty field, no stored page text
PgForm == SourcePage("form", <<>>, <<>>, <<TxtField, <<>> >>, OcrForm, <<>>)

\* a native page: a label, a two-line paragraph and a second paragraph
PgTwo == SourcePage("two", TxtTwo, RunsTwo, <<>>, OcrTwo, TxtTwo)

\* a scanned page of three paragraphs, the first broken by OCR into three short
\* blocks
PgShort == SourcePage("short", <<>>, <<>>, <<>>, OcrShort, TxtShort)

\* a scanned page with stored text on which OCR recognises nothing
PgBlank == SourcePage("blank", <<>>, <<>>, <<>>, OcrBlank, TxtBlank)

PageCatalogue == <<PgNative, PgScan, PgForm, PgTwo, PgShort, PgBlank>>

\* bias changes as the debias step stores them (phrases may hold tokens)
BiasChange(original_phrase, replacement_phrase) ==
  [original_phrase |-> original_phrase, replacement_phrase |-> replacement_phrase]

ChangeCatalogue ==
  << BiasChange(PhFled, PhLeft),
     BiasChange(PhAgitated, PhCalm),
     BiasChange(PhConfessed, PhStated),
     BiasChange(PhRanOff, PhDroveAway),
     BiasChange(PhRude, PhCurt),
     BiasChange(PhFled, PhLong),
     BiasChange(PhLeft, PhFled) >>

\* the entity mapping of the job: token -> original value, in dict order
EntityMapping == << <<TokPerson, ValPerson>> >>

\* the longest document and the longest list of bias changes explored
MaxPages == 2

MaxChanges == 2

\* every sequence over S of length at most n
SeqsUpTo(S, n) == UNION {[1..k -> S] : k \in 0..n}

\* documents: one to MaxPages catalogue pages, in catalogue order
DocChoices ==
  {q \in SeqsUpTo(1..Len(PageCatalogue), MaxPages) :
     /\ Len(q) >= 1
     /\ \A k \in 1..(Len(q) - 1) : q[k] < q[k + 1]}

\* lists of bias changes: at most MaxChanges catalogue entries, in catalogue order
ChangeChoices ==
  {q \in SeqsUpTo(1..Len(ChangeCatalogue), MaxChanges) :
     \A k \in 1..(Len(q) - 1) : q[k] < q[k + 1]}

\* the arguments of one export_formatted_pdf call and the document at the path
ExportInputs ==
  {[doc |-> [k \in 1..Len(d) |-> PageCatalogue[d[k]]],
    bias_changes |-> [k \in 1..Len(c) |-> ChangeCatalogue[c[k]]],
    entity_mapping |-> EntityMapping,
    is_scanned |-> sc,
    page_texts |-> [k \in 1..Len(d) |-> PageCatalogue[d[k]].page_text]] :
     d \in DocChoices, c \in ChangeChoices, sc \in BOOLEAN}

\* ------------------------------------------------------------ masking

\* a dict as the list of its (key, value) items in insertion order
DictHas(d, key) == \E i \in 1..Len(d) : d[i][1] = key

DictGet(d, key, default) ==
  IF DictHas(d, key) THEN d[CHOOSE i \in 1..Len(d) : d[i][1] = key][2] ELSE default

\* d[key] = value: a new key goes last, a known key keeps its place
DictSet(d, key, value) ==
  IF DictHas(d, key)
  THEN ListOf([i \in 1..Len(d) |-> IF d[i][1] = key THEN <<key, value>> ELSE d[i]])
  ELSE Append(d, <<key, value>>)

\* dict.update
Update(job, fields) ==
  [k \in DOMAIN job \cup DOMAIN fields |->
     IF k \in DOMAIN fields THEN fields[k] ELSE job[k]]

DigitChars == <<"0", "1", "2", "3", "4", "5", "6", "7", "8", "9">>

RECURSIVE Decimal(_)
\* str(n) of a natural number
Decimal(n) ==
  IF n < 10 THEN <<DigitChars[n + 1]>>
  ELSE Decimal(n \div 10) \o <<DigitChars[(n % 10) + 1]>>

\* f"[{entity_type}_{n}]"
Token(entity_type, n) == <<"[">> \o entity_type \o <<"_">> \o Decimal(n) \o <<"]">>

RECURSIVE SortedResults(_)
\* sorted(analyzer_results, key=start, reverse=True): a stable sort
SortedResults(analyzer_results) ==
  IF analyzer_results = <<>> THEN <<>>
  ELSE LET first == CHOOSE i \in 1..Len(analyzer_results) :
                       \A j \in 1..Len(analyzer_results) :
                          \/ analyzer_results[j].start < analyzer_results[i].start
                          \/ (analyzer_results[j].start = analyzer_results[i].start
                              /\ i <= j)
       IN <<analyzer_results[first]>>
          \o SortedResults(SubSeq(analyzer_results, 1, first - 1)
                           \o SubSeq(analyzer_results, first + 1, Len(analyzer_results)))

\* the token spliced in without removing the value
Splice_KeepsValue(masked, entity, token) ==
  SubSeq(masked, 1, Min(entity.start, Len(masked))) \o token
    \o SubSeq(masked, entity.start + 1, Len(masked))

\* masked[:entity.start] + token + masked[entity.end:]
Splice(masked, entity, token) ==
  SubSeq(masked, 1, Min(entity.start, Len(masked))) \o token
    \o SubSeq(masked, entity.end + 1, Len(masked))

\* one pass of the loop of mask_text over an entity
MaskEntity(result, text, entity) ==
  LET original_value == SubSeq(text, entity.start + 1, Min(entity.end, Len(text)))
      seen == DictHas(result.value_to_token, original_value)
      count == DictGet(result.type_counters, entity.entity_type, 0) + 1
      token == IF seen THEN DictGet(result.value_to_token, original_value, <<>>)
               ELSE Token(entity.entity_type, count)
  IN [masked_text |-> Splice(result.masked_text, entity, token),
      type_counters |-> IF seen THEN result.type_counters
                        ELSE DictSet(result.type_counters, entity.entity_type, count),
      value_to_token |-> IF seen THEN result.value_to_token
                         ELSE DictSet(result.value_to_token, original_value, token),
      entity_mapping |-> IF seen THEN result.entity_mapping
                         ELSE DictSet(result.entity_mapping, token, original_value),
      entities_found |-> Append(result.entities_found,
                                [entity_type |-> entity.entity_type,
                                 original |-> original_value,
                                 token |-> token])]

RECURSIVE MaskLoop(_, _, _)
MaskLoop(result, text, sorted_results) ==
  IF sorted_results = <<>> THEN result
  ELSE MaskLoop(MaskEntity(result, text, Head(sorted_results)), text,
                Tail(sorted_results))

\* mask_text
MaskText(text, analyzer_results) ==
  MaskLoop([masked_text |-> text, type_counters |-> <<>>, value_to_token |-> <<>>,
            entity_mapping |-> <<>>, entities_found |-> <<>>],
           text, SortedResults(analyzer_results))

RECURSIVE RunEnd(_, _, _)
\* the last index of the run of characters of S that starts at i (i - 1: none)
RunEnd(s, i, S) ==
  IF i <= Len(s) /\ s[i] \in S THEN RunEnd(s, i + 1, S) ELSE i - 1

\* TOKEN_PATTERN matched at i: the index of the closing bracket, 0 for no match
TokenPatternEnd(s, i) ==
  LET j == RunEnd(s, i + 1, UpperSet \cup {"_"})
      k == RunEnd(s, j + 1, Range(DigitChars))
  IN IF /\ s[i] = "["
        /\ j >= i + 2
        /\ s[j] = "_"
        /\ k >= j + 1
        /\ k + 1 <= Len(s)
        /\ s[k + 1] = "]"
     THEN k + 1 ELSE 0

RECURSIVE TokenPatternFindall(_, _)
\* TOKEN_PATTERN.findall on s[i:]: the matches from left to right
TokenPatternFindall(s, i) ==
  LET hits == {m \in i..Len(s) : TokenPatternEnd(s, m) > 0}
  IN IF hits = {} THEN <<>>
     ELSE LET m == MinOf(hits)
          IN <<SubSeq(s, m, TokenPatternEnd(s, m))>>
             \o TokenPatternFindall(s, TokenPatternEnd(s, m) + 1)

RECURSIVE UnmaskLoop(_, _)
\* `for token, original in entity_mapping.items(): text = text.replace(...)`
UnmaskLoop(text, entity_mapping) ==
  IF entity_mapping = <<>> THEN text
  ELSE UnmaskLoop(Replace(text, Head(entity_mapping)[1], Head(entity_mapping)[2]),
                  Tail(entity_mapping))

\* unmask_text
UnmaskText(masked_text, entity_mapping) ==
  LET text == UnmaskLoop(masked_text, entity_mapping)
  IN [final_text |-> text, unresolved_tokens |-> TokenPatternFindall(text, 1)]

\* the pieces reports are made of: plain text, and values the analyzer reports
\* as entities of a type (entity_type <<>>: no entity)
ReportPieces ==
  << [text |-> <<"[", "P", "E", "R", "S", "O", "N", "_", "1", "]", " ", "f", "l", "e", "d", " ">>,
      entity_type |-> <<>>],
     [text |-> <<"A", "l">>, entity_type |-> <<"P", "E", "R", "S", "O", "N">>],
     [text |-> <<"B", "o">>, entity_type |-> <<"P", "E", "R", "S", "O", "N">>] >>

MaxPieces == 2

RECURSIVE ReportOf(_, _)
\* the report made of the pieces q after the text `before`: its text, and its
\* entity spans (0-based, end exclusive) in ascending order
ReportOf(q, before) ==
  IF q = <<>> THEN [text |-> before, entities |-> <<>>]
  ELSE LET piece == ReportPieces[Head(q)]
           rest == ReportOf(Tail(q), before \o piece.text)
       IN [text |-> rest.text,
           entities |->
             (IF piece.entity_type = <<>> THEN <<>>
              ELSE << [entity_type |-> piece.entity_type,
                       start |-> Len(before),
                       end |-> Len(before) + Len(piece.text)] >>)
             \o rest.entities]

Reports ==
  {ReportOf(q, <<>>) : q \in SeqsUpTo(1..Len(ReportPieces), MaxPieces) \ {<<>>}}

\* analyze_text: the entities the analyzer finds in a text; overlaps removed,
\* in ascending order of start
AnalyzeText(text) == (CHOOSE r \in Reports : r.text = text).entities

\* debias_text: what the language model may answer to a masked text
DebiasText(masked_text) ==
  { [debiased_text |-> masked_text, changes |-> <<>>],
    [debiased_text |-> Replace(masked_text, <<"f", "l", "e", "d">>, <<"l", "e", "f", "t">>),
     changes |-> << [original_phrase |-> <<"f", "l", "e", "d">>, replacement_phrase |-> <<"l", "e", "f", "t">>] >>] }

\* ------------------------------------------------------------ the export

RECURSIVE UnmaskPhrase(_, _)
\* unmask_phrase: every token of the mapping replaced by its original value
UnmaskPhrase(phrase, mapping) ==
  IF mapping = <<>> THEN phrase
  ELSE UnmaskPhrase(Replace(phrase, Head(mapping)[1], Head(mapping)[2]), Tail(mapping))

\* changes: the (original, replacement) pairs, unmasked
UnmaskedChanges(bias_changes, mapping) ==
  ListOf([k \in 1..Len(bias_changes) |->
            << UnmaskPhrase(bias_changes[k].original_phrase, mapping),
               UnmaskPhrase(bias_changes[k].replacement_phrase, mapping) >>])

VARIABLES
  inp,                 \* the arguments of the call and the source document
  pc,                  \* where the call is
  changes,             \* the unmasked (original, replacement) pairs
  widgets,             \* widgets[p]: the field values of page p of the open document
  ops,                 \* ops[p]: what has been drawn on page p, in order
  updated,             \* the result of _export_via_form_fields
  page_idx,            \* the page the current loop is at (1-based)
  blocks,              \* the OCR blocks of the current page
  affected,            \* the (original, debiased) paragraphs of the current page
  para_idx,            \* the affected paragraph the loop is at
  replaced_block_idx,  \* the blocks of the current page already claimed
  log,                 \* what was done, in order
  saved,               \* the document written to output_path (<<>>: not written)
  jobs,                \* main.py's job store: job id -> the job's fields
  cloud                \* the texts passed to debias_text, in order

vars == <<inp, pc, changes, widgets, ops, updated, page_idx, blocks, affected,
          para_idx, replaced_block_idx, log, saved, jobs, cloud>>

NumPages == Len(inp.doc)

NoBlock == [block_num |-> 0, text |-> <<>>, rect |-> Rect(0, 0, 0, 0),
            word_rects |-> <<>>, avg_word_height |-> 0]

LogEntry(ev, page, para, text, bis, block) ==
  [ev |-> ev, page |-> page, para |-> para, text |-> text, bis |-> bis,
   block |-> block]

RECURSIVE DrawnText(_)
\* the text of the text runs among the drawing operations, one per line
DrawnText(page_ops) ==
  IF page_ops = <<>> THEN <<>>
  ELSE (IF Head(page_ops).kind = "draw_rect" THEN <<>>
        ELSE <<"\n">> \o Head(page_ops).text)
       \o DrawnText(Tail(page_ops))

\* get_text() that misses what has been drawn since the document was opened
GetText_NativeOnly(p) == inp.doc[p].native_text

\* page.get_text(): the native text and every text run drawn since; a filled
\* rectangle drawn over text removes nothing from it
GetText(p) == inp.doc[p].native_text \o DrawnText(ops[p])

\* whether rectangles a and b overlap
Intersects(a, b) == a.x0 < b.x1 /\ b.x0 < a.x1 /\ a.y0 < b.y1 /\ b.y0 < a.y1

\* pytesseract.image_to_data on the raster of page p as it is now: the source
\* page's words, less those a white rectangle drawn since covers
ImageToData(p) ==
  LET data == inp.doc[p].ocr
      Covered(w) == \E k \in 1..Len(ops[p]) :
                       /\ ops[p][k].kind = "draw_rect"
                       /\ Intersects(WordRect(w), ops[p][k].rect)
      kept == Ascending({i \in 1..Len(data) : ~Covered(data[i])})
  IN ListOf([k \in 1..Len(kept) |-> data[kept[k]]])

\* a save that loses the last page
SavedDocument_DropsLastPage(doc, w, o) ==
  [p \in 1..(Len(doc) - 1) |-> [id |-> doc[p].id, widgets |-> w[p], ops |-> o[p]]]

\* doc.save: the pages of the open document, in order
SavedDocument(doc, w, o) ==
  [p \in 1..Len(doc) |-> [id |-> doc[p].id, widgets |-> w[p], ops |-> o[p]]]

\* the early return never taken
NoBiasChanges_Never(bias_changes) == FALSE

\* `if not bias_changes`
NoBiasChanges(bias_changes) == bias_changes = <<>>

\* the native path falling through to block replacement after patching fields
FormsHandledIt_Never(any_updated) == FALSE

\* `if _export_via_form_fields(doc, changes): return`
FormsHandledIt(any_updated) == any_updated

\* `jobs: dict[str, dict] = {}`
NoJobs == [id \in {} |-> <<>>]

Init ==
  /\ inp \in ExportInputs
  /\ pc = "open"
  /\ changes = <<>>
  /\ widgets = [p \in 1..Len(inp.doc) |-> inp.doc[p].widgets]
  /\ ops = [p \in 1..Len(inp.doc) |-> <<>>]
  /\ updated = FALSE
  /\ page_idx = 0
  /\ blocks = <<>>
  /\ affected = <<>>
  /\ para_idx = 0
  /\ replaced_block_idx = {}
  /\ log = <<>>
  /\ saved = <<>>
  /\ jobs = NoJobs
  /\ cloud = {}

\* export_formatted_pdf with no bias changes: the document is saved as it is
SaveAsIs ==
  /\ pc = "open"
  /\ NoBiasChanges(inp.bias_changes)
  /\ saved' = SavedDocument(inp.doc, widgets, ops)
  /\ pc' = "closed"
  /\ UNCHANGED <<jobs, cloud, inp, changes, widgets, ops, updated, page_idx, blocks, affected,
                 para_idx, replaced_block_idx, log>>

\* _export_formatted_scanned: block replacement, whatever the form fields hold
ExportFormattedScanned ==
  /\ pc = "open"
  /\ ~NoBiasChanges(inp.bias_changes)
  /\ inp.is_scanned
  /\ changes' = UnmaskedChanges(inp.bias_changes, inp.entity_mapping)
  /\ pc' = "blocks"
  /\ page_idx' = 1
  /\ UNCHANGED <<jobs, cloud, inp, widgets, ops, updated, blocks, affected, para_idx,
                 replaced_block_idx, log, saved>>

\* _export_via_form_fields over the whole document
PatchedWidgets(w, chg) ==
  [p \in DOMAIN w |-> ListOf([k \in 1..Len(w[p]) |-> PatchWidget(w[p][k], chg).text])]

AnyWidgetChanged(w, chg) ==
  \E p \in DOMAIN w : \E k \in 1..Len(w[p]) : PatchWidget(w[p][k], chg).changed

\* _export_formatted_native: the form-field patcher, then block replacement
\* unless a field was updated
ExportFormattedNative ==
  /\ pc = "open"
  /\ ~NoBiasChanges(inp.bias_changes)
  /\ ~inp.is_scanned
  /\ LET chg == UnmaskedChanges(inp.bias_changes, inp.entity_mapping)
         any_updated == AnyWidgetChanged(widgets, chg)
     IN /\ changes' = chg
        /\ widgets' = PatchedWidgets(widgets, chg)
        /\ updated' = any_updated
        /\ log' = Append(log, LogEntry("form_fields", 0, <<>>, <<>>, <<>>, NoBlock))
        /\ pc' = IF FormsHandledIt(any_updated) THEN "layer" ELSE "blocks"
  /\ page_idx' = 1
  /\ UNCHANGED <<jobs, cloud, inp, ops, blocks, affected, para_idx, replaced_block_idx, saved>>

\* the entries of the log that mark the start of a second call
Restarts == {i \in 1..Len(log) : log[i].ev = "restart"}

\* a block list whose order depends on the run: reversed once the call is repeated
PageBlocks_SecondRunReversed(p) ==
  LET blks == OcrPageBlocks(ImageToData(p))
  IN IF Restarts = {} THEN blks
     ELSE ListOf([k \in 1..Len(blks) |-> blks[Len(blks) + 1 - k]])

\* blocks = _ocr_page_blocks(page)
PageBlocks(p) == OcrPageBlocks(ImageToData(p))

\* the block numbers of a block list, in the order of the list
BlockNums(blks) == ListOf([k \in 1..Len(blks) |-> blks[k].block_num])

\* the page loop of _replace_affected_blocks moves on from page p
LeavePage(p) ==
  /\ pc' = IF p < NumPages THEN "blocks" ELSE "layer"
  /\ page_idx' = IF p < NumPages THEN p + 1 ELSE 1
  /\ blocks' = <<>>
  /\ affected' = <<>>
  /\ para_idx' = 0
  /\ replaced_block_idx' = {}

\* page_texts[page_idx] if page_texts and page_idx < len(page_texts) else None
StoredText(p) == IF p <= Len(inp.page_texts) THEN inp.page_texts[p] ELSE <<>>

\* one page of _replace_affected_blocks, up to the paragraph loop; Tesseract may
\* raise on the page's raster, and nothing catches it
PageBegin ==
  /\ pc = "blocks"
  /\ LET p == page_idx
         stored == StoredText(p)
     IN IF stored = <<>> \/ ~AnyPhrasePresent(stored, changes)
        THEN LeavePage(p) /\ UNCHANGED log
        ELSE \E ocr_raises \in BOOLEAN :
        IF ocr_raises
        THEN /\ pc' = "raised"
             /\ log' = Append(log, LogEntry("ocr_error", p, <<>>, <<>>, <<>>, NoBlock))
             /\ UNCHANGED <<page_idx, blocks, affected, para_idx, replaced_block_idx>>
        ELSE LET blks == PageBlocks(p)
                 aff == Affected(CleanedParagraphs(stored), changes)
             IN /\ log' = Append(log, LogEntry("ocr_blocks", p, <<>>, <<>>,
                                                 BlockNums(blks), NoBlock))
                /\ IF blks = <<>> \/ aff = <<>>
                   THEN LeavePage(p)
                   ELSE /\ pc' = "paragraphs"
                        /\ blocks' = blks
                        /\ affected' = aff
                        /\ para_idx' = 1
                        /\ replaced_block_idx' = {}
                        /\ UNCHANGED page_idx
  /\ UNCHANGED <<jobs, cloud, inp, changes, widgets, ops, updated, saved>>

\* a paragraph without a match ending the page's loop
LoopGoesOn_StopsAtNoMatch(idx, aff, matching_bis) ==
  matching_bis # <<>> /\ idx < Len(aff)

\* `for para, debiased_para in affected`, after `continue` or the end of the
\* body: whether another paragraph follows
LoopGoesOn(idx, aff, matching_bis) == idx < Len(aff)

\* one affected paragraph of the current page: match, merge, white out, render
ParagraphStep ==
  /\ pc = "paragraphs"
  /\ LET p == page_idx
         para == affected[para_idx][1]
         debiased_para == affected[para_idx][2]
         matching_bis == MatchingBlocks(blocks, para, changes, replaced_block_idx)
         matched_blocks == ListOf([k \in 1..Len(matching_bis) |-> blocks[matching_bis[k]]])
         merged == IF Len(matched_blocks) > 1 THEN MergeBlocks(matched_blocks)
                   ELSE matched_blocks[1]
         claimed == IF WordSet(para) = {} \/ matching_bis = <<>>
                    THEN replaced_block_idx
                    ELSE replaced_block_idx \cup Range(matching_bis)
     IN /\ IF WordSet(para) = {}
           THEN UNCHANGED <<ops, log>>
           ELSE IF matching_bis = <<>>
           THEN /\ log' = Append(log, LogEntry("no_match", p, para, debiased_para,
                                               <<>>, NoBlock))
                /\ UNCHANGED ops
           ELSE /\ ops' = [ops EXCEPT ![p] = @ \o WhiteoutAndRender(merged, debiased_para)]
                /\ log' = Append(log, LogEntry("render", p, para, debiased_para,
                                               matching_bis, merged))
        /\ IF LoopGoesOn(para_idx, affected, matching_bis)
           THEN /\ para_idx' = para_idx + 1
                /\ replaced_block_idx' = claimed
                /\ UNCHANGED <<pc, page_idx, blocks, affected>>
           ELSE LeavePage(p)
  /\ UNCHANGED <<jobs, cloud, inp, changes, widgets, updated, saved>>

\* one page of _add_searchable_text_layer; Tesseract may raise here as well
LayerPage ==
  /\ pc = "layer"
  /\ LET p == page_idx
     IN IF Len(Strip(GetText(p))) > MinSearchableChars
        THEN /\ UNCHANGED <<ops, log>>
             /\ pc' = IF p < NumPages THEN "layer" ELSE "save"
             /\ page_idx' = IF p < NumPages THEN p + 1 ELSE p
        ELSE \E ocr_raises \in BOOLEAN :
        IF ocr_raises
        THEN /\ pc' = "raised"
             /\ log' = Append(log, LogEntry("ocr_error", p, <<>>, <<>>, <<>>, NoBlock))
             /\ UNCHANGED <<ops, page_idx>>
        ELSE /\ ops' = [ops EXCEPT ![p] = @ \o InvisibleRuns(ImageToData(p))]
             /\ log' = Append(log, LogEntry("layer", p, <<>>, <<>>, <<>>, NoBlock))
             /\ pc' = IF p < NumPages THEN "layer" ELSE "save"
             /\ page_idx' = IF p < NumPages THEN p + 1 ELSE p
  /\ UNCHANGED <<jobs, cloud, inp, changes, widgets, updated, blocks, affected, para_idx,
                 replaced_block_idx, saved>>

\* doc.save(output_path, garbage=3, deflate=True); doc.close()
Save ==
  /\ pc = "save"
  /\ saved' = SavedDocument(inp.doc, widgets, ops)
  /\ pc' = "closed"
  /\ UNCHANGED <<jobs, cloud, inp, changes, widgets, ops, updated, page_idx, blocks, affected,
                 para_idx, replaced_block_idx, log>>

Next ==
  \/ SaveAsIs
  \/ ExportFormattedScanned
  \/ ExportFormattedNative
  \/ PageBegin
  \/ ParagraphStep
  \/ LayerPage
  \/ Save

Spec == Init /\ [][Next]_vars

\* ------------------------------------------------------------- properties

\* the edit pairs of the call, de-tokenized
Pairs == UnmaskedChanges(inp.bias_changes, inp.entity_mapping)

Closed == pc = "closed"

\* the call is over: it returned or an exception left it
Finished == pc \in {"closed", "raised"}

RenderEntries == {i \in 1..Len(log) : log[i].ev = "render"}

\* the rank of render entry i among the render entries of its page
RenderRank(i) ==
  Cardinality({j \in RenderEntries : j <= i /\ log[j].page = log[i].page})

\* the filled rectangle and the text box drawn for render entry i
CoverOf(i) == ops[log[i].page][2 * RenderRank(i) - 1]

TextBoxOf(i) == ops[log[i].page][2 * RenderRank(i)]

\* the drawing operations of one kind on page p
OpsOfKind(p, kind) == {j \in 1..Len(ops[p]) : ops[p][j].kind = kind}

\* no page holds a whiteout or a redrawn text box
NoBlockDrawing ==
  \A p \in 1..NumPages :
     OpsOfKind(p, "draw_rect") = {} /\ OpsOfKind(p, "insert_textbox") = {}

RECURSIVE ReplaceAll(_, _)
\* every pair applied by str.replace, in list order
ReplaceAll(text, pairs) ==
  IF pairs = <<>> THEN text
  ELSE ReplaceAll(Replace(text, Head(pairs)[1], Head(pairs)[2]), Tail(pairs))

\* the pairs whose original phrase occurs in the text as the earlier pairs left it
AppliedPairs(text, pairs) ==
  {k \in 1..Len(pairs) :
     Contains(ReplaceAll(text, SubSeq(pairs, 1, k - 1)), pairs[k][1])}

C2_SamePagesSameOrder ==
  Closed =>
    /\ Len(saved) = Len(inp.doc)
    /\ \A p \in 1..Len(inp.doc) : saved[p].id = inp.doc[p].id

\* a two-page document was saved after one of its pages was redrawn
C2_Witness ==
  /\ Closed
  /\ Len(saved) = 2
  /\ RenderEntries # {}

\* C3: with an empty edit list nothing is written to a field, whited out or
\* drawn, and the saved document is the source document.
C3_EmptyEditListSavesSource ==
  inp.bias_changes = <<>> =>
    /\ log = <<>>
    /\ \A p \in 1..NumPages : ops[p] = <<>> /\ widgets[p] = inp.doc[p].widgets
    /\ Closed =>
         saved = [p \in 1..NumPages |->
                    [id |-> inp.doc[p].id, widgets |-> inp.doc[p].widgets,
                     ops |-> <<>>]]

\* an image-only page with recognisable words was saved with no edit to apply
C3_Witness ==
  /\ Closed
  /\ inp.bias_changes = <<>>
  /\ \E p \in 1..NumPages :
        /\ Len(Strip(inp.doc[p].native_text)) <= MinSearchableChars
        /\ \E w \in Range(inp.doc[p].ocr) : Strip(w.text) # <<>>

\* C4: once the form-field patcher has changed a widget, no page is OCR-matched,
\* whited out or redrawn by block replacement.
C4_FormsExcludeBlocks ==
  updated =>
    /\ NoBlockDrawing
    /\ \A i \in 1..Len(log) : log[i].ev \notin {"ocr_blocks", "render", "no_match"}

\* a field was patched in a document one of whose pages holds an original phrase
C4_Witness ==
  /\ Closed
  /\ updated
  /\ \E p \in 1..NumPages : AnyPhrasePresent(StoredText(p), Pairs)

\* the fields of the source whose value holds an original phrase
PhraseFields ==
  {<<p, k>> \in (1..NumPages) \X (1..2) :
     /\ k <= Len(inp.doc[p].widgets)
     /\ inp.doc[p].widgets[k] # <<>>
     /\ AnyPhrasePresent(inp.doc[p].widgets[k], Pairs)}

\* C5 as stated: whatever the scanned hint, a field whose value holds an edit's
\* original phrase ends the export with the phrase replaced and nothing whited out.
C5_AsStated ==
  Closed /\ inp.bias_changes # <<>> =>
    \A f \in PhraseFields :
       /\ saved[f[1]].widgets[f[2]] = ReplaceAll(inp.doc[f[1]].widgets[f[2]], Pairs)
       /\ NoBlockDrawing

\* C5 amended: with the scanned hint false the form-field patcher runs first and
\* block replacement runs only if no widget changed, so a field whose value holds
\* an original phrase is rewritten with the pairs applied in list order and
\* nothing is whited out; with the scanned hint true the patcher never runs.
C5_NativeFormsFirst ==
  /\ inp.is_scanned =>
       /\ ~updated
       /\ \A p \in 1..NumPages : widgets[p] = inp.doc[p].widgets
       /\ \A i \in 1..Len(log) : log[i].ev # "form_fields"
  /\ ~inp.is_scanned /\ pc # "open" /\ inp.bias_changes # <<>> =>
       /\ log # <<>> /\ log[1].ev = "form_fields"
       /\ (\E i \in 1..Len(log) : log[i].ev \in {"ocr_blocks", "render"}) => ~updated
       /\ \A f \in PhraseFields :
             /\ widgets[f[1]][f[2]] = ReplaceAll(inp.doc[f[1]].widgets[f[2]], Pairs)
             /\ NoBlockDrawing
             /\ Closed => saved[f[1]].widgets = widgets[f[1]]

\* a native export rewrote a field and saved
C5_Witness ==
  /\ Closed
  /\ ~inp.is_scanned
  /\ PhraseFields # {}
  /\ \E p \in 1..NumPages : AnyPhrasePresent(StoredText(p), Pairs)

\* the render entries of page p
RendersOn(p) == {i \in RenderEntries : log[i].page = p}

\* the OCR blocks block replacement saw on page p: those of the source raster
SourceBlocks(p) == OcrPageBlocks(inp.doc[p].ocr)

\* C6: after a correction is rendered on a page of a native document without
\* forms, the page's extractable text holds the corrected text and no occurrence
\* of an original phrase that the corrected text no longer holds.
C6_ExtractableTextLosesOriginal ==
  Closed /\ ~inp.is_scanned =>
    \A p \in 1..NumPages :
       ( /\ inp.doc[p].widgets = <<>>
         /\ inp.doc[p].native_text # <<>>
         /\ RendersOn(p) # {}
         /\ \A i \in 1..Len(log) : ~(log[i].ev = "no_match" /\ log[i].page = p) ) =>
         \A i \in RendersOn(p) :
            /\ Contains(GetText(p), TextBoxOf(i).text)
            /\ \A k \in 1..Len(Pairs) :
                 ( /\ Contains(log[i].para, Pairs[k][1])
                   /\ \A j \in RendersOn(p) : ~Contains(TextBoxOf(j).text, Pairs[k][1]) )
                 => ~Contains(GetText(p), Pairs[k][1])

\* sentence-final punctuation
Punctuation == {".", ",", ";", ":", "!", "?"}

\* s without one trailing punctuation mark
DropTrailingPunct(s) ==
  IF s # <<>> /\ s[Len(s)] \in Punctuation THEN SubSeq(s, 1, Len(s) - 1) ELSE s

\* the paragraphs of page p that its only OCR block reads in another letter case
\* and without the trailing punctuation
RecasedParagraphs(p) ==
  LET paras == CleanedParagraphs(StoredText(p))
      blks == SourceBlocks(p)
  IN IF Len(blks) # 1 THEN {}
     ELSE {k \in 1..Len(paras) :
             /\ blks[1].text # DropTrailingPunct(paras[k])
             /\ Lower(blks[1].text) = Lower(DropTrailingPunct(paras[k]))
             /\ AnyPhrasePresent(paras[k], Pairs)}

\* C7: on a page whose only OCR block reads the words of a paragraph in another
\* letter case and without its trailing punctuation, an edit whose original phrase
\* occurs in the paragraph has the block whited out and redrawn with the debiased
\* paragraph.
C7_RecasedBlockIsMatched ==
  Closed /\ ~updated =>
    \A p \in 1..NumPages :
       \A k \in RecasedParagraphs(p) :
          LET para == CleanedParagraphs(StoredText(p))[k]
          IN \E i \in RendersOn(p) :
                /\ log[i].para = para
                /\ log[i].bis = <<1>>
                /\ CoverOf(i).kind = "draw_rect"
                /\ TextBoxOf(i).text = Strip(ReplaceAll(para, Pairs))

\* the non-blank source words of page p that lie in the blocks matched by entry i
MatchedWords(i) ==
  LET p == log[i].page
      nums == {SourceBlocks(p)[bi].block_num : bi \in Range(log[i].bis)}
  IN {w \in Range(inp.doc[p].ocr) : Strip(w.text) # <<>> /\ w.block_num \in nums}

\* the smallest rectangle holding every word of W, in milli-points
TightBox(W) ==
  [x0 |-> MinOf({w.left * MilliPtPerPx : w \in W}),
   y0 |-> MinOf({w.top * MilliPtPerPx : w \in W}),
   x1 |-> MaxOf({(w.left + w.width) * MilliPtPerPx : w \in W}),
   y1 |-> MaxOf({(w.top + w.height) * MilliPtPerPx : w \in W})]

\* C8: when the call is over, every affected paragraph that matched k >= 1 blocks
\* has got exactly one whiteout and one text draw, over one region whose rectangle
\* is the tight bounding box of the word rectangles of all k blocks; no block is
\* drawn over for two paragraphs.
C8_OneRegionPerParagraph ==
  Finished =>
    /\ \A p \in 1..NumPages :
          /\ Cardinality(OpsOfKind(p, "draw_rect")) = Cardinality(RendersOn(p))
          /\ Cardinality(OpsOfKind(p, "insert_textbox")) = Cardinality(RendersOn(p))
    /\ \A i \in RenderEntries :
          LET tight == TightBox(MatchedWords(i))
              rank == RenderRank(i)
              cover == ops[log[i].page][2 * rank - 1]
              box == ops[log[i].page][2 * rank]
          IN /\ log[i].bis # <<>>
             /\ log[i].block.rect = tight
             /\ cover.kind = "draw_rect" /\ box.kind = "insert_textbox"
             /\ box.rect.x0 = tight.x0 /\ box.rect.y0 = tight.y0
             /\ box.rect.x1 = tight.x1 /\ box.rect.y1 >= tight.y1
             /\ cover.rect.x0 <= tight.x0 /\ cover.rect.y0 <= tight.y0
             /\ cover.rect.x1 >= tight.x1 /\ cover.rect.y1 >= tight.y1
             /\ \A j \in RendersOn(log[i].page) :
                   j # i => Range(log[j].bis) \cap Range(log[i].bis) = {}

\* a paragraph matched two blocks and was drawn once over their union
C8_Witness ==
  /\ Closed
  /\ \E i \in RenderEntries :
        /\ Len(log[i].bis) = 2
        /\ log[i].block.rect # SourceBlocks(log[i].page)[log[i].bis[1]].rect
        /\ log[i].block.rect # SourceBlocks(log[i].page)[log[i].bis[2]].rect

\* the distinct normalized words block bi of page p shares with a paragraph
SharedWords(p, bi, para) == WordSet(SourceBlocks(p)[bi].text) \cap WordSet(para)

\* C9 as stated: a block sharing fewer than 5 distinct normalized words with a
\* changed paragraph is never whited out for that paragraph.
C9_AsStated ==
  \A i \in RenderEntries :
     \A bi \in Range(log[i].bis) :
        Cardinality(SharedWords(log[i].page, bi, log[i].para)) >= 5

\* the blocks of the page claimed by the render entries before entry i
ClaimedBefore(i) ==
  UNION {Range(log[j].bis) : j \in {r \in RendersOn(log[i].page) : r < i}}

\* both thresholds, for block bi of page p against a paragraph
ClearsBar(p, bi, para) ==
  LET bw == WordSet(SourceBlocks(p)[bi].text)
      n == Cardinality(bw \cap WordSet(para))
  IN bw # {} /\ 10 * n >= 4 * Cardinality(bw) /\ n >= 5

\* C9 amended: a block sharing fewer than 5 distinct normalized words with a
\* changed paragraph is never assigned to it by the overlap match; when the call
\* is over, such a block has been whited out for the paragraph only through the
\* fallback, that is when no unclaimed block of the page cleared both thresholds
\* and the block's OCR text contains some edit's original phrase.
C9_ShortBlocksOnlyByFallback ==
  Finished =>
    \A i \in RenderEntries :
       LET p == log[i].page
           blks == SourceBlocks(p)
           pw == WordSet(log[i].para)
           bw == ListOf([b \in 1..Len(blks) |-> WordSet(blks[b].text)])
           n == ListOf([b \in 1..Len(blks) |-> Cardinality(bw[b] \cap pw)])
           free == (1..Len(blks)) \ ClaimedBefore(i)
           pairs == Pairs
       IN \A bi \in Range(log[i].bis) :
             /\ bi \in free
             /\ n[bi] < 5 =>
                  /\ \A b \in free :
                        ~(bw[b] # {} /\ 10 * n[b] >= 4 * Cardinality(bw[b]) /\ n[b] >= 5)
                  /\ \E k \in 1..Len(pairs) :
                        Contains(NormalizeWs(blks[bi].text), NormalizeWs(pairs[k][1]))

\* one paragraph took a block of fewer than 5 shared words through the fallback,
\* and another took a block that cleared both thresholds
C9_Witness ==
  /\ Closed
  /\ \E i \in RenderEntries : \E bi \in Range(log[i].bis) :
        Cardinality(SharedWords(log[i].page, bi, log[i].para)) < 5
  /\ \E i \in RenderEntries : \E bi \in Range(log[i].bis) :
        ClearsBar(log[i].page, bi, log[i].para)

\* C10 as stated: the final font size of every rendered region lies between 7
\* and avg_word_height * 0.80.
C10_AsStated ==
  \A i \in RenderEntries :
     /\ TextBoxOf(i).fontsize >= 7000
     /\ TextBoxOf(i).fontsize * 10 <= log[i].block.avg_word_height * 8

\* C10 amended: when the call is over, the final font size of every rendered
\* region lies between 7 and max(avg_word_height * 0.80, 7): it is 7 when the word
\* height gives less.
C10_FontSizeWithinFlooredRange ==
  Finished =>
    \A i \in RenderEntries :
       LET fs == TextBoxOf(i).fontsize
           avg == log[i].block.avg_word_height
       IN /\ fs >= 7000
          /\ fs * 10 <= avg * 8 \/ fs = 7000

\* one region was drawn at a reduced size above 7, another at the floor of 7
C10_Witness ==
  /\ Closed
  /\ \E i \in RenderEntries :
        /\ TextBoxOf(i).fontsize > 7000
        /\ TextBoxOf(i).fontsize * 10 < (log[i].block.avg_word_height * 8) - 10
  /\ \E i \in RenderEntries :
        /\ TextBoxOf(i).fontsize = 7000
        /\ log[i].block.avg_word_height * 8 < 70000

\* a drawing operation other than an invisible run
IsVisibleOp(op) == op.kind # "insert_text"

\* what page.get_text() gave for page p when the searchable-layer pass came to
\* it: the native text and the text boxes block replacement had drawn
TextAtLayerPass(p) ==
  inp.doc[p].native_text \o DrawnText(SelectSeq(ops[p], IsVisibleOp))

\* C11: a page whose extractable text at the searchable-layer pass, hence after
\* the corrections, has more than 50 characters never receives an invisible run:
\* every page that did receive one had at most 50 characters then.
C11_SearchablePagesGetNoLayer ==
  \A p \in 1..NumPages :
     OpsOfKind(p, "insert_text") # {} => Len(Strip(TextAtLayerPass(p))) <= 50

\* an image-only page was redrawn with more than 50 characters and the layer pass
\* went by it, while another page got its invisible runs
C11_Witness ==
  /\ Closed
  /\ \E p \in 1..NumPages :
        /\ Len(Strip(inp.doc[p].native_text)) <= 50
        /\ Len(Strip(TextAtLayerPass(p))) > 50
        /\ OpsOfKind(p, "insert_text") = {}
  /\ \E p \in 1..NumPages : OpsOfKind(p, "insert_text") # {}

\* ------------------------------------------- the same export, called twice

\* export_formatted_pdf is called again with the same arguments: the source
\* document is opened afresh, and nothing of the first call is kept
Restart ==
  /\ pc = "closed"
  /\ Restarts = {}
  /\ pc' = "open"
  /\ changes' = <<>>
  /\ widgets' = [p \in 1..Len(inp.doc) |-> inp.doc[p].widgets]
  /\ ops' = [p \in 1..Len(inp.doc) |-> <<>>]
  /\ updated' = FALSE
  /\ page_idx' = 0
  /\ blocks' = <<>>
  /\ affected' = <<>>
  /\ para_idx' = 0
  /\ replaced_block_idx' = {}
  /\ saved' = <<>>
  /\ log' = Append(log, LogEntry("restart", 0, <<>>, <<>>, <<>>, NoBlock))
  /\ UNCHANGED <<jobs, cloud, inp>>

\* block replacement on a scanned document with edits to apply
InitRerun == Init /\ inp.is_scanned /\ inp.bias_changes # <<>>

NextRerun ==
  \/ ExportFormattedScanned
  \/ PageBegin
  \/ ParagraphStep
  \/ LayerPage
  \/ Save
  \/ Restart

SpecRerun == InitRerun /\ [][NextRerun]_vars

\* what the first and the second call logged
FirstRun == SubSeq(log, 1, MinOf(Restarts) - 1)

SecondRun == SubSeq(log, MinOf(Restarts) + 1, Len(log))

OcrErrorPages == {log[i].page : i \in {j \in 1..Len(log) : log[j].ev = "ocr_error"}}

\* C13: an OCR failure on a page, during block replacement or during the
\* searchable-layer pass, does not abort the export: the call goes on with the
\* remaining pages and saves.
C13_OcrFailureDoesNotAbort ==
  OcrErrorPages # {} => pc \in {"blocks", "paragraphs", "layer", "save", "closed"}

\* ------------------------------------------------------------ the job store

\* the ids upload_file may draw (uuid4, first 8 characters)
JobIds == {"0a1b2c3d", "4e5f6a7b"}

\* no export call under way
NoExportCall ==
  /\ inp = [doc |-> <<>>, bias_changes |-> <<>>, entity_mapping |-> <<>>,
            is_scanned |-> FALSE, page_texts |-> <<>>]
  /\ pc = "idle"
  /\ changes = <<>>
  /\ widgets = <<>>
  /\ ops = <<>>
  /\ updated = FALSE
  /\ page_idx = 0
  /\ blocks = <<>>
  /\ affected = <<>>
  /\ para_idx = 0
  /\ replaced_block_idx = {}
  /\ log = <<>>
  /\ saved = <<>>

ExportVars == <<inp, pc, changes, widgets, ops, updated, page_idx, blocks, affected,
                para_idx, replaced_block_idx, log, saved>>

\* upload_file: a new job under a fresh id, holding the extracted text
UploadFile(job_id, total_text) ==
  /\ job_id \notin DOMAIN jobs
  /\ jobs' = [k \in DOMAIN jobs \cup {job_id} |->
                IF k = job_id
                THEN [original_text |-> total_text, status |-> "extracted"]
                ELSE jobs[k]]
  /\ UNCHANGED <<cloud, ExportVars>>

\* mask_report: analyze, mask, store; whatever the job's status
MaskReport(job_id) ==
  /\ job_id \in DOMAIN jobs
  /\ LET original_text == jobs[job_id].original_text
         mask_result == MaskText(original_text, AnalyzeText(original_text))
     IN jobs' = [jobs EXCEPT ![job_id] =
                   Update(@, [masked_text |-> mask_result.masked_text,
                              entities_found |-> mask_result.entities_found,
                              entity_mapping |-> mask_result.entity_mapping,
                              status |-> "masked"])]
  /\ UNCHANGED <<cloud, ExportVars>>

\* debias_report: the masked text goes to the language model, the answer is
\* unmasked and stored
DebiasReport(job_id) ==
  /\ job_id \in DOMAIN jobs
  /\ jobs[job_id].status = "masked"
  /\ \E debias_result \in DebiasText(jobs[job_id].masked_text) :
        LET unmask_result == UnmaskText(debias_result.debiased_text,
                                        jobs[job_id].entity_mapping)
        IN jobs' = [jobs EXCEPT ![job_id] =
                      Update(@, [debiased_masked |-> debias_result.debiased_text,
                                 debiased_text |-> unmask_result.final_text,
                                 bias_changes |-> debias_result.changes,
                                 unresolved_tokens |-> unmask_result.unresolved_tokens,
                                 status |-> "processed"])]
  /\ cloud' = cloud \cup {[job_id |-> job_id, text |-> jobs[job_id].masked_text]}
  /\ UNCHANGED ExportVars

InitJobs == jobs = NoJobs /\ cloud = {} /\ NoExportCall

NextJobs ==
  \/ \E job_id \in JobIds, r \in Reports : UploadFile(job_id, r.text)
  \/ \E job_id \in JobIds : MaskReport(job_id)
  \/ \E job_id \in JobIds : DebiasReport(job_id)

SpecJobs == InitJobs /\ [][NextJobs]_vars

\* the jobs whose masked text came back from the language model as it was sent
Unedited ==
  {id \in DOMAIN jobs : /\ jobs[id].status = "processed"
                        /\ jobs[id].debiased_masked = jobs[id].masked_text}

\* C14: masking is reversible: unmasking the masked text of a report with the
\* mapping mask_text returned gives the original text back, and no token is
\* left unresolved
C14_MaskingIsReversible ==
  \A id \in Unedited :
     /\ jobs[id].debiased_text = jobs[id].original_text
     /\ jobs[id].unresolved_tokens = <<>>

\* the value of entity span e in text
ValueAt(text, e) == SubSeq(text, e.start + 1, e.end)

RECURSIVE Tokenized(_, _, _, _)
\* text from index `from` on, each of the spans k.. replaced by the token the
\* masker reported for it (entities_found lists the spans last to first)
Tokenized(text, spans, found, k) ==
  IF k > Len(spans) THEN <<>>
  ELSE LET upto == IF k = Len(spans) THEN Len(text) ELSE spans[k + 1].start
       IN found[Len(spans) - k + 1].token
          \o SubSeq(text, spans[k].end + 1, upto)
          \o Tokenized(text, spans, found, k + 1)

\* two reports that differ only in the values at the entity spans: same spans,
\* same types, same text outside the spans, same equalities among the values
Twins(ta, tb) ==
  LET ea == AnalyzeText(ta)
      eb == AnalyzeText(tb)
      InSpan(i) == \E k \in 1..Len(ea) : ea[k].start < i /\ i <= ea[k].end
  IN /\ ea = eb
     /\ Len(ta) = Len(tb)
     /\ \A i \in 1..Len(ta) : InSpan(i) \/ ta[i] = tb[i]
     /\ \A k, l \in 1..Len(ea) :
          (ValueAt(ta, ea[k]) = ValueAt(ta, ea[l]))
            <=> (ValueAt(tb, eb[k]) = ValueAt(tb, eb[l]))

\* C15: only masked text is sent to the cloud: the text passed to debias_text is
\* the job's original text with every entity span handed to mask_text replaced
\* by its token, and two reports that differ only in the values at those spans
\* send the same text
C15_OnlyMaskedTextIsSent ==
  /\ \A c \in cloud :
       LET job == jobs[c.job_id]
           spans == AnalyzeText(job.original_text)
           first == IF spans = <<>> THEN Len(job.original_text) ELSE spans[1].start
       IN /\ Len(job.entities_found) = Len(spans)
          /\ \A k \in 1..Len(spans) :
               LET token == job.entities_found[Len(spans) - k + 1].token
               IN /\ TokenPatternEnd(token, 1) = Len(token)
                  /\ token # ValueAt(job.original_text, spans[k])
          /\ c.text = SubSeq(job.original_text, 1, first)
                        \o Tokenized(job.original_text, spans, job.entities_found, 1)
  /\ \A c, d \in cloud :
       Twins(jobs[c.job_id].original_text, jobs[d.job_id].original_text)
         => c.text = d.text

\* two jobs whose reports name different people at the same two spans have both
\* been sent
C15_Witness ==
  \E c, d \in cloud :
     /\ c.job_id # d.job_id
     /\ jobs[c.job_id].original_text # jobs[d.job_id].original_text
     /\ Twins(jobs[c.job_id].original_text, jobs[d.job_id].original_text)
     /\ Len(AnalyzeText(jobs[c.job_id].original_text)) >= 2

\* the entries of the paragraph loop for page p, in log order
ParagraphEntries(p) ==
  Ascending({i \in 1..Len(log) : log[i].page = p /\ log[i].ev \in {"render", "no_match"}})

RECURSIVE InOrder(_, _)
\* the list a is the list b with some elements left out
InOrder(a, b) ==
  IF a = <<>> THEN TRUE
  ELSE IF b = <<>> THEN FALSE
  ELSE IF Head(a) = Head(b) THEN InOrder(Tail(a), Tail(b))
  ELSE InOrder(a, Tail(b))

\* C16: within one page pass each OCR block is assigned to at most one
\* paragraph: the blocks matched for a paragraph hold none of the blocks claimed
\* by an earlier paragraph of the page, whether they were found by the
\* thresholds or by the fallback, and the paragraphs are taken in the order in
\* which they stand in the page's text
C16_FirstClaimWins ==
  Finished =>
    /\ \A i \in RenderEntries :
         Range(log[i].bis) \cap ClaimedBefore(i) = {}
    /\ \A p \in 1..NumPages : \A i \in Range(ParagraphEntries(p)) :
         log[i].bis = MatchingBlocks(SourceBlocks(p), log[i].para, changes,
                                     ClaimedBefore(i))
    /\ \A p \in 1..NumPages :
         LET taken == ParagraphEntries(p)
         IN InOrder(ListOf([k \in 1..Len(taken) |-> log[taken[k]].para]),
                    CleanedParagraphs(StoredText(p)))

\* a later paragraph of a page was matched while a block it would have matched
\* with nothing claimed was already taken by an earlier paragraph
C16_Witness ==
  /\ Closed
  /\ \E i \in RenderEntries : \E j \in Range(ParagraphEntries(log[i].page)) :
       /\ i < j
       /\ \E bi \in Range(log[i].bis) :
            bi \in Range(MatchingBlocks(SourceBlocks(log[j].page), log[j].para,
                                        changes, {}))

\* the widgets of the source document: (page, index)
Fields ==
  {f \in (1..NumPages) \X (1..2) : f[2] <= Len(inp.doc[f[1]].widgets)}

\* C17: the form-field patcher applies the edit pairs to each non-empty widget
\* value in list order, each pair replacing every occurrence of its original
\* phrase in the value as the earlier pairs left it; a widget with an empty
\* value is never modified
C17_PatcherAppliesPairsInOrder ==
  ~inp.is_scanned /\ pc # "open" /\ inp.bias_changes # <<>> =>
    \A f \in Fields :
       LET before == inp.doc[f[1]].widgets[f[2]]
       IN widgets[f[1]][f[2]] =
            IF before = <<>> THEN <<>> ELSE ReplaceAll(before, Pairs)

\* the patcher has run over an empty widget and over a widget in which a pair
\* applied only to what an earlier pair had put there
C17_Witness ==
  /\ Closed
  /\ ~inp.is_scanned
  /\ \E f \in Fields : inp.doc[f[1]].widgets[f[2]] = <<>>
  /\ \E f \in Fields : \E k \in 2..Len(Pairs) :
       LET before == inp.doc[f[1]].widgets[f[2]]
       IN /\ before # <<>>
          /\ ~Contains(before, Pairs[k][1])
          /\ Contains(ReplaceAll(before, SubSeq(Pairs, 1, k - 1)), Pairs[k][1])
          /\ widgets[f[1]][f[2]] # ReplaceAll(before, SubSeq(Pairs, 1, k - 1))

\* C18: the form-field patcher returns true if and only if at least one widget
\* of the document has a value after patching that differs from its value
\* before, and a widget is written back only when its value changed
C18_TrueIffAWidgetChanged ==
  ~inp.is_scanned /\ pc # "open" /\ inp.bias_changes # <<>> =>
    /\ updated <=> (\E f \in Fields :
                      widgets[f[1]][f[2]] # inp.doc[f[1]].widgets[f[2]])
    /\ \A f \in Fields :
         PatchWidget(inp.doc[f[1]].widgets[f[2]], Pairs).changed
           => widgets[f[1]][f[2]] # inp.doc[f[1]].widgets[f[2]]

\* the draw operations block replacement leaves on page p
BlockDrawing(p) == OpsOfKind(p, "draw_rect") \cup OpsOfKind(p, "insert_textbox")

\* C19: a paragraph whose text after applying every edit pair equals its
\* original text is skipped, no block is claimed, whited out or redrawn for it,
\* and a page on which no paragraph changes is left untouched by block
\* replacement
C19_UnchangedParagraphIsSkipped ==
  /\ \A i \in RenderEntries : log[i].text # log[i].para
  /\ \A p \in 1..NumPages :
       (\A para \in Range(CleanedParagraphs(StoredText(p))) :
           ReplaceAll(para, Pairs) = para)
         => BlockDrawing(p) = {}

NoMatchEntries == {i \in 1..Len(log) : log[i].ev = "no_match"}

\* the affected paragraphs of page p that hold a word
MatchedOrNot(p) ==
  SelectSeq(Affected(CleanedParagraphs(StoredText(p)), changes),
            LAMBDA a : WordSet(a[1]) # {})

\* C20: when a changed paragraph matches no block, neither by the thresholds nor
\* by the fallback, nothing is drawn and no block is claimed for it, and
\* processing goes on with the next paragraph and the following pages until the
\* document is saved
C20_NoMatchIsSkippedAndExportGoesOn ==
  Finished =>
    \A i \in NoMatchEntries :
       LET p == log[i].page
           taken == ParagraphEntries(p)
       IN \* nothing drawn: one whiteout and one text box per matched paragraph
          /\ Cardinality(OpsOfKind(p, "draw_rect")) = Cardinality(RendersOn(p))
          /\ Cardinality(OpsOfKind(p, "insert_textbox")) = Cardinality(RendersOn(p))
          \* nothing claimed: the paragraphs after it match as if it had not been there
          /\ log[i].bis = <<>>
          /\ \A j \in Range(taken) :
               j > i => log[j].bis = MatchingBlocks(SourceBlocks(p), log[j].para,
                                                    changes, ClaimedBefore(j))
          \* the next paragraphs are taken
          /\ ListOf([k \in 1..Len(taken) |-> log[taken[k]].para])
               = ListOf([k \in 1..Len(MatchedOrNot(p)) |-> MatchedOrNot(p)[k][1]])
          \* the following pages are taken, and the document is saved, as far as
          \* Tesseract lets the call go
          /\ \A q \in (p + 1)..NumPages :
               AnyPhrasePresent(StoredText(q), changes)
                 => \E j \in (i + 1)..Len(log) :
                       \/ log[j].page = q /\ log[j].ev = "ocr_blocks"
                       \/ log[j].page <= q /\ log[j].ev = "ocr_error"
          /\ OcrErrorPages = {} => Closed /\ saved = SavedDocument(inp.doc, widgets, ops)

\* the document was saved after a paragraph matched no block and the next
\* paragraph of its page was rendered, and after a paragraph matched no block
\* and a paragraph of a following page was rendered
C20_Witness ==
  /\ Closed
  /\ \E i \in NoMatchEntries : \E j \in RenderEntries :
       j > i /\ log[j].page = log[i].page
  /\ \E i \in NoMatchEntries : \E j \in RenderEntries :
       j > i /\ log[j].page > log[i].page

\* the height estimated for the text of render entry i at the size it was drawn
NeededAtDrawnSize(i) ==
  LET box == TextBoxOf(i)
  IN EstimateTextboxHeight(
       Len(WrapText(box.text, Width(log[i].block.rect), box.fontsize)),
       box.fontsize)

\* C21: the render rectangle keeps the matched block's x0, y0 and x1, and its
\* bottom is max(block y1, y0 + estimated height + 4): the region grows only
\* downward and is never smaller than the block.
C21_RegionGrowsOnlyDownward ==
  Finished =>
    \A i \in RenderEntries :
       LET rect == log[i].block.rect
           render_rect == TextBoxOf(i).rect
       IN /\ render_rect.x0 = rect.x0
          /\ render_rect.y0 = rect.y0
          /\ render_rect.x1 = rect.x1
          /\ render_rect.y1 =
               Max(rect.y1, rect.y0 + NeededAtDrawnSize(i) + BottomBuffer)
          /\ render_rect.y1 >= rect.y1

\* one region was extended below its block and another kept the block's bottom
C21_Witness ==
  /\ Closed
  /\ \E i \in RenderEntries : TextBoxOf(i).rect.y1 > log[i].block.rect.y1
  /\ \E i \in RenderEntries :
        /\ TextBoxOf(i).rect.y1 = log[i].block.rect.y1
        /\ NeededAtDrawnSize(i) + BottomBuffer < Height(log[i].block.rect)

\* the number of text lines the block of render entry i held: the distinct
\* tops of its word rectangles
LinesOfBlock(i) ==
  Cardinality({log[i].block.word_rects[k].y0 :
                 k \in 1..Len(log[i].block.word_rects)})

\* the lines the text of render entry i wraps to at the size it was drawn
WrappedLines(i) ==
  Len(WrapText(TextBoxOf(i).text, Width(log[i].block.rect), TextBoxOf(i).fontsize))

\* C22: when the corrected text wraps to no more lines than the block held, the
\* font size stays at the size derived from the word height and the render
\* rectangle equals the block rectangle.
C22_NoShrinkNoGrowthWhenTextFits ==
  Finished =>
    \A i \in RenderEntries :
       WrappedLines(i) <= LinesOfBlock(i) =>
          /\ TextBoxOf(i).fontsize = InitialFontSize(log[i].block.avg_word_height)
          /\ TextBoxOf(i).rect = log[i].block.rect

\* the height estimated for the text of render entry i at font size fs
NeededAt(i, fs) ==
  EstimateTextboxHeight(
    Len(WrapText(TextBoxOf(i).text, Width(log[i].block.rect), fs)), fs)

\* the size derived from the word height of the block of render entry i
DerivedSize(i) == Max((log[i].block.avg_word_height * 8) \div 10, 7000)

\* that size after one reduction
OnceReduced(i) == Max((DerivedSize(i) * 8) \div 10, 7000)

\* the one reduction applies to render entry i: the first estimate exceeds 1.1
\* times the block height, the size is above 7 and the second estimate fits
ReductionApplies(i) ==
  /\ NeededAt(i, DerivedSize(i)) * 10 > Height(log[i].block.rect) * 11
  /\ DerivedSize(i) > 7000
  /\ NeededAt(i, OnceReduced(i)) * 10 <= Height(log[i].block.rect) * 11

\* C23: the font size of a region is reduced at most once, to
\* max(fontsize * 0.80, 7), and only when the first estimate exceeds 1.1 times
\* the block height with the size above 7 and the estimate at the reduced size is
\* within 1.1 times the block height; otherwise max(avg_word_height * 0.80, 7)
\* is kept.
C23_AtMostOneReduction ==
  Finished =>
    \A i \in RenderEntries :
       TextBoxOf(i).fontsize =
         IF ReductionApplies(i) THEN OnceReduced(i) ELSE DerivedSize(i)

\* one region was drawn at the reduced size; for another the first estimate
\* exceeded the bar as well, no reduction applied and the derived size was kept
C23_Witness ==
  /\ Closed
  /\ \E i \in RenderEntries :
        ReductionApplies(i) /\ TextBoxOf(i).fontsize < DerivedSize(i)
  /\ \E i \in RenderEntries :
        /\ NeededAt(i, DerivedSize(i)) * 10 > Height(log[i].block.rect) * 11
        /\ ~ReductionApplies(i)
        /\ TextBoxOf(i).fontsize = DerivedSize(i)

\* C24: for every rendered region the white rectangle over the grown region plus
\* a margin of 2 points on all four sides is painted before the replacement text
\* is drawn, the text box is the grown region, and no erasure of the region
\* follows its text: the page's visible drawing is one cover then one text box
\* per rendered paragraph, in the order the paragraphs were rendered.
C24_WhiteoutBeforeText ==
  /\ \A p \in 1..NumPages :
        /\ Cardinality(OpsOfKind(p, "draw_rect")) = Cardinality(RendersOn(p))
        /\ Cardinality(OpsOfKind(p, "insert_textbox")) = Cardinality(RendersOn(p))
        /\ \A j \in OpsOfKind(p, "draw_rect") :
              j < Len(ops[p]) /\ ops[p][j + 1].kind = "insert_textbox"
  /\ \A i \in RenderEntries :
        LET cover == CoverOf(i)
            box == TextBoxOf(i)
        IN /\ cover.kind = "draw_rect"
           /\ box.kind = "insert_textbox"
           /\ box.text = Strip(log[i].text)
           /\ cover.rect.x0 = box.rect.x0 - 2000
           /\ cover.rect.y0 = box.rect.y0 - 2000
           /\ cover.rect.x1 = box.rect.x1 + 2000
           /\ cover.rect.y1 = box.rect.y1 + 2000
           /\ box.rect.y1 >= log[i].block.rect.y1

\* two regions were rendered on one page of a saved document, one of them grown
C24_Witness ==
  /\ Closed
  /\ \E i, j \in RenderEntries :
        /\ i < j
        /\ log[i].page = log[j].page
        /\ TextBoxOf(i).rect.y1 > log[i].block.rect.y1

IsInvisibleOp(op) == op.kind = "insert_text"

\* the invisible runs on page p are one per non-blank word Tesseract reads on the
\* page as redrawn, in its order, each at (left, top + fontsize * 0.88) in points
\* with fontsize max(height * 0.85, 1), and they are in the saved document
HasSearchableLayer(p) ==
  LET runs == SelectSeq(ops[p], IsInvisibleOp)
      words == SelectSeq(ImageToData(p), NonBlankWord)
  IN /\ Len(runs) = Len(words)
     /\ \A k \in 1..Len(words) :
           LET fontsize == Max((words[k].height * 240 * 85) \div 100, 1000)
           IN /\ runs[k].text = Strip(words[k].text)
              /\ runs[k].fontsize = fontsize
              /\ runs[k].render_mode = 3
              /\ runs[k].rect.x0 = words[k].left * 240
              /\ runs[k].rect.y0 = words[k].top * 240 + (fontsize * 88) \div 100
     /\ SelectSeq(saved[p].ops, IsInvisibleOp) = runs

\* C25 as stated: in every export call, the one with an empty edit list included,
\* every page of the saved output whose extractable text has at most 50
\* characters carries the invisible run of every non-blank OCR word.
C25_AsStated ==
  Closed =>
    \A p \in 1..NumPages :
       Len(Strip(TextAtLayerPass(p))) <= 50 => HasSearchableLayer(p)

\* C25: in every export call with a non-empty edit list, one in which form fields
\* were patched included, every page of the saved output whose extractable text
\* has at most 50 characters carries the invisible run of every non-blank OCR
\* word; a call with an empty edit list saves the source without any run.
C25_LayerOnImageOnlyPages ==
  Closed =>
    \A p \in 1..NumPages :
       /\ inp.bias_changes # <<>> /\ Len(Strip(TextAtLayerPass(p))) <= 50
            => HasSearchableLayer(p)
       /\ inp.bias_changes = <<>> => OpsOfKind(p, "insert_text") = {}

\* form fields were patched, and a page without extractable text was saved with
\* its invisible runs
C25_Witness ==
  /\ Closed
  /\ updated
  /\ \E p \in 1..NumPages :
        /\ Len(Strip(TextAtLayerPass(p))) <= 50
        /\ OpsOfKind(p, "insert_text") # {}

\* --------------------------------------------- pages of particular layouts

\* 'NARRATIVE:\nThe suspect fled the scene.'
TxtLabel ==
  <<"N","A","R","R","A","T","I","V","E",":","\n","T","h","e"," ","s","u","s","p","e","c","t"," ","f","l","e","d"," ","t","h","e"," ","s","c","e","n","e",".">>

\* the label (block 1) and the sentence under it (block 2), words 50 px high
OcrLabel ==
  << OcrWord(<<"N","A","R","R","A","T","I","V","E",":">>, 300, 200, 300, 50, 1),
     OcrWord(<<"T","h","e">>, 300, 300, 90, 50, 2),
     OcrWord(<<"s","u","s","p","e","c","t">>, 420, 300, 210, 50, 2),
     OcrWord(<<"f","l","e","d">>, 660, 300, 120, 50, 2),
     OcrWord(<<"t","h","e">>, 810, 300, 90, 50, 2),
     OcrWord(<<"s","c","e","n","e",".">>, 930, 300, 180, 50, 2) >>

\* 'He fled the scene at noon.\n\nShe fled with him at noon.'
TxtTight ==
  <<"H","e"," ","f","l","e","d"," ","t","h","e"," ","s","c","e","n","e"," ","a","t"," ","n","o","o","n",".","\n","\n","S","h","e"," ","f","l","e","d"," ","w","i","t","h"," ","h","i","m"," ","a","t"," ","n","o","o","n",".">>

\* two one-line paragraphs (blocks 1 and 2), words 50 px high, 10 px between the lines
OcrTight ==
  << OcrWord(<<"H","e">>, 300, 300, 60, 50, 1),
     OcrWord(<<"f","l","e","d">>, 390, 300, 120, 50, 1),
     OcrWord(<<"t","h","e">>, 540, 300, 90, 50, 1),
     OcrWord(<<"s","c","e","n","e">>, 660, 300, 150, 50, 1),
     OcrWord(<<"a","t">>, 840, 300, 60, 50, 1),
     OcrWord(<<"n","o","o","n",".">>, 930, 300, 150, 50, 1),
     OcrWord(<<"S","h","e">>, 300, 360, 90, 50, 2),
     OcrWord(<<"f","l","e","d">>, 420, 360, 120, 50, 2),
     OcrWord(<<"w","i","t","h">>, 570, 360, 120, 50, 2),
     OcrWord(<<"h","i","m">>, 720, 360, 90, 50, 2),
     OcrWord(<<"a","t">>, 840, 360, 60, 50, 2),
     OcrWord(<<"n","o","o","n",".">>, 930, 360, 150, 50, 2) >>

\* 'He fled the scene.\n\nShe was agitated.'
TxtMixed ==
  <<"H","e"," ","f","l","e","d"," ","t","h","e"," ","s","c","e","n","e",".","\n","\n","S","h","e"," ","w","a","s"," ","a","g","i","t","a","t","e","d",".">>

\* two short paragraphs (blocks 1 and 2), words 50 px high
OcrMixed ==
  << OcrWord(<<"H","e">>, 300, 300, 60, 50, 1),
     OcrWord(<<"f","l","e","d">>, 390, 300, 120, 50, 1),
     OcrWord(<<"t","h","e">>, 540, 300, 90, 50, 1),
     OcrWord(<<"s","c","e","n","e",".">>, 660, 300, 180, 50, 1),
     OcrWord(<<"S","h","e">>, 300, 400, 90, 50, 2),
     OcrWord(<<"w","a","s">>, 420, 400, 90, 50, 2),
     OcrWord(<<"a","g","i","t","a","t","e","d",".">>, 540, 400, 270, 50, 2) >>

\* a scanned page: a label line and one sentence under it, no blank line
PgLabel == SourcePage("label", <<>>, <<>>, <<>>, OcrLabel, TxtLabel)

\* a scanned page: two one-line paragraphs set close together
PgTight == SourcePage("tight", <<>>, <<>>, <<>>, OcrTight, TxtTight)

\* a scanned page: two short paragraphs, each with a phrase of its own
PgMixed == SourcePage("mixed", <<>>, <<>>, <<>>, OcrMixed, TxtMixed)

LayoutCatalogue == <<PgLabel, PgTight, PgMixed>>

\* documents of one to MaxPages of these pages, in catalogue order
LayoutChoices ==
  {q \in SeqsUpTo(1..Len(LayoutCatalogue), MaxPages) :
     /\ Len(q) >= 1
     /\ \A k \in 1..(Len(q) - 1) : q[k] < q[k + 1]}

\* the arguments of one export_formatted_pdf call on such a document
LayoutInputs ==
  {[doc |-> [k \in 1..Len(d) |-> LayoutCatalogue[d[k]]],
    bias_changes |-> [k \in 1..Len(c) |-> ChangeCatalogue[c[k]]],
    entity_mapping |-> EntityMapping,
    is_scanned |-> sc,
    page_texts |-> [k \in 1..Len(d) |-> LayoutCatalogue[d[k]].page_text]] :
     d \in LayoutChoices, c \in ChangeChoices, sc \in BOOLEAN}

InitLayouts ==
  /\ inp \in LayoutInputs
  /\ pc = "open"
  /\ changes = <<>>
  /\ widgets = [p \in 1..Len(inp.doc) |-> inp.doc[p].widgets]
  /\ ops = [p \in 1..Len(inp.doc) |-> <<>>]
  /\ updated = FALSE
  /\ page_idx = 0
  /\ blocks = <<>>
  /\ affected = <<>>
  /\ para_idx = 0
  /\ replaced_block_idx = {}
  /\ log = <<>>
  /\ saved = <<>>
  /\ jobs = NoJobs
  /\ cloud = {}

\* export_formatted_pdf on the documents of particular layouts
SpecLayouts == InitLayouts /\ [][Next]_vars

RECURSIVE AccumulatedLines(_, _)
\* the groups of lines the line-accumulation fallback joins into paragraphs
AccumulatedLines(lines, current) ==
  IF lines = <<>>
  THEN (IF current # <<>> THEN <<current>> ELSE <<>>)
  ELSE LET cur == Append(current, Head(lines))
       IN IF Len(Join(cur, <<" ">>)) >= 80
          THEN <<cur>> \o AccumulatedLines(Tail(lines), <<>>)
          ELSE AccumulatedLines(Tail(lines), cur)

\* a group of lines as one paragraph, less a leading label line
WithoutLabelLine(group) ==
  IF Len(group) >= 2 /\ IsLabelLine(group[1])
  THEN Join(Tail(group), <<" ">>)
  ELSE Join(group, <<" ">>)

\* the paragraphs of a stored page text with every leading label line removed,
\* whichever way the text was segmented
LabelFreeParagraphs(stored) ==
  LET paragraphs == StripAll(ReSplitBlank(stored))
      groups == AccumulatedLines(StripAll(SplitLines(stored)), <<>>)
  IN IF Len(paragraphs) <= 1
     THEN ListOf([k \in 1..Len(groups) |-> WithoutLabelLine(groups[k])])
     ELSE ListOf([k \in 1..Len(paragraphs) |-> CleanLabel(paragraphs[k])])

\* C26: every paragraph that begins with an all-caps label line ending in a
\* colon has that line removed before the edits are applied, the blocks matched
\* and the text rendered, whether it came from blank-line segmentation or from
\* the 80-character line accumulation: the affected paragraphs of a page are
\* those of its label-free paragraphs that an edit pair changes.
C26_LabelLineIsRemoved ==
  pc = "paragraphs" =>
    affected = Affected(LabelFreeParagraphs(StoredText(page_idx)), changes)

Abs(n) == IF n < 0 THEN 0 - n ELSE n

\* 2 * |difference of the vertical centres| + |difference of the left edges|
StyleScore(run, target) ==
  Abs((run.bbox.y0 + run.bbox.y1) - (target.y0 + target.y1))
    + Abs(run.bbox.x0 - target.x0)

\* the built-in font of a family, weight and slant
FontOf(run) ==
  LET k == IF run.bold /\ run.italic THEN 4
           ELSE IF run.italic THEN 3 ELSE IF run.bold THEN 2 ELSE 1
  IN IF run.family = "mono" THEN <<"cour", "cobo", "coit", "cobi">>[k]
     ELSE IF run.family = "serif" THEN <<"tiro", "tibo", "tiit", "tibi">>[k]
     ELSE <<"helv", "hebo", "heit", "hebi">>[k]

\* C27: the replacement text of each region is drawn in the font family, weight
\* and slant and in the colour of the text run of the page that minimises
\* 2 * |difference of vertical centres| + |difference of left edges| against the
\* target rectangle, and in the default sans and black on a page without runs.
C27_TextDrawnInNearestRunStyle ==
  Finished =>
    \A i \in RenderEntries :
       LET runs == inp.doc[log[i].page].runs
           target == log[i].block.rect
           box == TextBoxOf(i)
       IN IF runs = <<>>
          THEN box.fontname = "helv" /\ box.color = Black
          ELSE \E k \in 1..Len(runs) :
                  /\ \A j \in 1..Len(runs) :
                        StyleScore(runs[k], target) <= StyleScore(runs[j], target)
                  /\ box.fontname = FontOf(runs[k])
                  /\ box.color = runs[k].color

\* ------------------------------------------------- the job store with exports

\* the values of the `format` query parameter that export_report tells apart
Formats == {"pdf", "docx", "formatted_pdf"}

\* output_path: the job id and the suffix the format selects
OutputPath(job_id, format) ==
  <<job_id, IF format = "formatted_pdf" THEN "_formatted.pdf"
            ELSE IF format = "docx" THEN "_debiased.docx"
            ELSE "_debiased.pdf">>

\* export_report: a job that is processed is written to the output path of the
\* format, from its debiased text and its bias changes; `saved` holds the files
\* written, path -> content, in dict order
ExportReport(job_id, format) ==
  /\ job_id \in DOMAIN jobs
  /\ jobs[job_id].status = "processed"
  /\ saved' = DictSet(saved, OutputPath(job_id, format),
                      [text |-> jobs[job_id].debiased_text,
                       bias_changes |-> jobs[job_id].bias_changes])
  /\ UNCHANGED <<jobs, cloud, inp, pc, changes, widgets, ops, updated, page_idx,
                 blocks, affected, para_idx, replaced_block_idx, log>>

\* the one id upload_file draws here; requests under the other id of JobIds
\* are requests on an unknown job
UploadedId == "0a1b2c3d"

NextFlow ==
  \/ \E r \in Reports : UploadFile(UploadedId, r.text)
  \/ \E job_id \in JobIds : MaskReport(job_id)
  \/ \E job_id \in JobIds : DebiasReport(job_id)
  \/ \E job_id \in JobIds, format \in Formats : ExportReport(job_id, format)

\* upload, mask, debias and export requests, in any order
SpecFlow == InitJobs /\ [][NextFlow]_vars

\* the status of a job in a job store, "unknown" for an id it does not hold
StatusIn(store, id) == IF id \in DOMAIN store THEN store[id].status ELSE "unknown"

\* C28: a job is exported only after it was uploaded, then masked, then debiased:
\* every request that changes a job takes it from unknown to extracted, from
\* extracted to masked or from masked to processed, a file is written only for a
\* job whose status is processed, and a request on an unknown job or in the wrong
\* status leaves the job store as it is.
C28_StatusGatesEveryRequest ==
  [][\A id \in JobIds :
       /\ (id \in DOMAIN jobs' /\ (id \notin DOMAIN jobs \/ jobs'[id] # jobs[id])) =>
             \/ StatusIn(jobs, id) = "unknown" /\ StatusIn(jobs', id) = "extracted"
             \/ StatusIn(jobs, id) = "extracted" /\ StatusIn(jobs', id) = "masked"
             \/ StatusIn(jobs, id) = "masked" /\ StatusIn(jobs', id) = "processed"
       /\ (\E format \in Formats :
             DictGet(saved', OutputPath(id, format), <<>>)
               # DictGet(saved, OutputPath(id, format), <<>>)) =>
             StatusIn(jobs, id) = "processed" /\ jobs' = jobs]_vars

\* C29: on one page the white rectangle painted for a later paragraph, its grown
\* region plus the margin, never overlaps the region in which the replacement
\* text of an earlier paragraph was drawn.
C29_LaterCoverSparesEarlierText ==
  \A i, j \in RenderEntries :
     i < j /\ log[i].page = log[j].page =>
        ~Intersects(CoverOf(j).rect, TextBoxOf(i).rect)

\* C30: every block whited out for a paragraph either meets both overlap
\* thresholds against that paragraph or contains an original phrase that occurs
\* in that paragraph: the fallback never gives a paragraph a block that matches
\* only an edit pair that does not apply to it.
C30_FallbackBlockHoldsAPhraseOfTheParagraph ==
  \A i \in RenderEntries :
     \A k \in 1..Len(log[i].bis) :
        LET block == SourceBlocks(log[i].page)[log[i].bis[k]]
        IN \/ MeetsThresholds(WordSet(block.text), WordSet(log[i].para))
           \/ \E c \in 1..Len(Pairs) :
                 /\ Contains(log[i].para, Pairs[c][1])
                 /\ Contains(NormalizeWs(block.text), NormalizeWs(Pairs[c][1]))

====
